---- MODULE Spec2Model ----
(***************************************************************************)
(* A model of the COVID-rumours dashboard (src/Dashboard.py and            *)
(* src/pages/About_the_data.py).                                           *)
(*                                                                         *)
(* SpecColloc steps through the body of get_nx_collocation_graph on        *)
(* bigram tables, focus words, metric and cutoff drawn from bounded sets.  *)
(* Spec steps through the render cycles of the two Streamlit pages.        *)
(*                                                                         *)
(* A DataFrame is a sequence of records (its rows, in row order); a        *)
(* networkx Graph is a record of two functions, node -> attribute dict and *)
(* edge -> attribute dict, an undirected edge being the set of its         *)
(* endpoints; an attribute dict is a function from keys to values.  PMI    *)
(* scores are carried as integers (tenths).                                *)
(***************************************************************************)
EXTENDS Integers, Sequences, FiniteSets, TLC

VARIABLES
    \* frame of get_nx_collocation_graph: parameters, locals, position
    bigrams, words, type, top,
    df, x_collocates, y_collocates, df_collocates, graph, pc

collocVars == <<bigrams, words, type, top,
                df, x_collocates, y_collocates, df_collocates, graph, pc>>

VARIABLES
    \* the browser session: the page shown and the values of its widgets
    page, widgets,
    \* a run of the page's script: position, elements displayed so far,
    \* the script's globals, the exception that ended it
    script_pc, shown, words_to_collocate, collocations, cf_collocations,
    saved, displayed, cf_displayed, source_data, cf_source_data, raised,
    \* the files under assets/pyvis_html
    files

runVars == <<script_pc, shown, words_to_collocate, collocations, cf_collocations,
             saved, displayed, cf_displayed, source_data, cf_source_data, raised>>

dashVars == <<page, widgets, runVars, files>>

VARIABLES
    \* the taxonomies of a load: the yaml data, the globals computed from it,
    \* a call of get_taxonomy_vocabularies, the exception raised, the position
    raw, dict_taxonomies, nx_taxonomies, taxonomy_categories,
    selected_taxonomy_category, vocabularies, tax_raised, tax_pc,
    \* the list that is the default of get_taxonomy_categories' parameter path
    path_default

taxVars == <<raw, dict_taxonomies, nx_taxonomies, taxonomy_categories,
             selected_taxonomy_category, vocabularies, tax_raised, tax_pc,
             path_default>>

VARIABLES
    \* two browser sessions that run the script against the same files: the
    \* position of each in its run, its graph, the document it displays
    session_pc, session_collocations, session_displayed

sessVars == <<session_pc, session_collocations, session_displayed>>

VARIABLES
    \* the selectors of the dashboard: st.session_state, whether the
    \* collocation section is enabled, the options and indices computed by a
    \* run, the exception raised, the position of the run
    session_state, colloc_section, selected_words_options,
    selected_collocation_words_options, selected_taxonomy_category_index,
    cf_corpus_subset_index, selector_raised, selector_pc

selVars == <<session_state, colloc_section, selected_words_options,
             selected_collocation_words_options,
             selected_taxonomy_category_index, cf_corpus_subset_index,
             selector_raised, selector_pc>>

vars == <<collocVars, dashVars, taxVars, sessVars, selVars>>

-----------------------------------------------------------------------------
(* Bounds of the model *)

MaxRows == 2
MaxTop == 2

\* The words of the corpus, in Python's string order (position = rank).
Vocab == <<"hoax", "lies", "truth">>
WordSet == {Vocab[i] : i \in 1..Len(Vocab)}
Rank(w) == CHOOSE i \in 1..Len(Vocab) : Vocab[i] = w

\* Frequency and PMI (in tenths) of a pair on a day: those of the two rows of
\* the specification's scenario.
Scores == {[f_xy |-> 5, pmi |-> 12], [f_xy |-> 9, pmi |-> 4]}

\* What a row of a bigrams.csv.gz file records about a pair of distinct words.
BigramCounts ==
    {[x |-> p[1], y |-> p[2], f_xy |-> m.f_xy, pmi |-> m.pmi] :
        p \in {q \in WordSet \X WordSet : q[1] # q[2]}, m \in Scores}

\* A row of the table: date, x, y, f_xy, pmi.
BigramRow(d, c) ==
    [date |-> d, x |-> c.x, y |-> c.y, f_xy |-> c.f_xy, pmi |-> c.pmi]

\* The tables of at most MaxRows rows, one row per day (day i in row i).
Tables ==
    UNION {{[i \in 1..n |-> BigramRow(i, c[i])] : c \in [1..n -> BigramCounts]} :
              n \in 0..MaxRows}

CollocationTypes == {"f_xy", "pmi"}

-----------------------------------------------------------------------------
(* DataFrame and Graph helpers *)

None == "None"

\* A global of the script that is not assigned, a file that does not exist:
\* such a value is <<>>, and <<v>> once it holds v.
Unset == <<>>
NoAttrs == [k \in {} |-> 0]
EmptyGraph == [nodes |-> NoAttrs, edges |-> NoAttrs]

\* The rows of s at the positions in K, in row order.
RECURSIVE TakeRows(_, _, _)
TakeRows(s, K, i) ==
    IF i > Len(s) THEN <<>>
    ELSE (IF i \in K THEN <<s[i]>> ELSE <<>>) \o TakeRows(s, K, i + 1)

\* DataFrame.drop(['date'], axis=1)
DropDate(s) ==
    [i \in 1..Len(s) |-> [x |-> s[i].x, y |-> s[i].y,
                          f_xy |-> s[i].f_xy, pmi |-> s[i].pmi]]

\* DataFrame.drop_duplicates(): the first occurrence of every row is kept.
DropDuplicates(s) ==
    TakeRows(s, {i \in 1..Len(s) : \A j \in 1..(i - 1) : s[j] # s[i]}, 1)

\* df[df.x.isin(words)]
XCollocates(s, ws) == TakeRows(s, {i \in 1..Len(s) : s[i].x \in ws}, 1)

\* The rename forgotten: the rows whose y is a focus word, as they are.
YCollocatesNoSwap(s, ws) == TakeRows(s, {i \in 1..Len(s) : s[i].y \in ws}, 1)

\* df[df.y.isin(words)].rename(columns={"x": "y", "y": "x"})
SwapXY(r) == [x |-> r.y, y |-> r.x, f_xy |-> r.f_xy, pmi |-> r.pmi]
YCollocates(s, ws) ==
    LET m == TakeRows(s, {i \in 1..Len(s) : s[i].y \in ws}, 1)
    IN  [i \in 1..Len(m) |-> SwapXY(m[i])]

\* The metric sorted ascending instead of descending.
MayPrecedeAscending(a, b, t) ==
    \/ Rank(a.x) > Rank(b.x)
    \/ a.x = b.x /\ a[t] <= b[t]

\* Row a may precede row b under sort_values(['x', t], ascending=False).
MayPrecede(a, b, t) ==
    \/ Rank(a.x) > Rank(b.x)
    \/ a.x = b.x /\ a[t] >= b[t]

\* The arrangements of the rows of s at the positions in I that are descending
\* in (x, t): any row that may precede all the others comes first.
RECURSIVE Arrangements(_, _, _)
Arrangements(s, I, t) ==
    IF I = {} THEN {<<>>}
    ELSE UNION {{<<s[i]>> \o r : r \in Arrangements(s, I \ {i}, t)} :
                   i \in {k \in I : \A j \in I : MayPrecede(s[k], s[j], t)}}

\* sort_values(['x'], ascending=False): the metric left out of the sort keys.
RECURSIVE ArrangementsByX(_, _)
ArrangementsByX(s, I) ==
    IF I = {} THEN {<<>>}
    ELSE UNION {{<<s[i]>> \o r : r \in ArrangementsByX(s, I \ {i})} :
                   i \in {k \in I : \A j \in I : Rank(s[k].x) >= Rank(s[j].x)}}

SortValuesByXOnly(s, t) == ArrangementsByX(s, 1..Len(s))

\* sort_values(['x', t], ascending=False): the sort kind is the default and no
\* order among rows with equal keys is promised, so every arrangement of the
\* rows that is descending in (x, t) is an outcome.
SortValues(s, t) == Arrangements(s, 1..Len(s), t)

\* head(n + 1): one row too many in every group.
GroupHeadOffByOne(s, n) ==
    TakeRows(s, {i \in 1..Len(s) :
                    Cardinality({j \in 1..(i - 1) : s[j].x = s[i].x}) <= n}, 1)

\* groupby('x').head(n): the first n rows of every group, in row order
\* (a negative n keeps all but the last |n| rows of every group).
GroupHead(s, n) ==
    LET before(i) == Cardinality({j \in 1..(i - 1) : s[j].x = s[i].x})
        after(i) == Cardinality({j \in (i + 1)..Len(s) : s[j].x = s[i].x})
    IN  TakeRows(s, {i \in 1..Len(s) :
                        IF n >= 0 THEN before(i) < n ELSE after(i) >= -n}, 1)

\* Graph.add_node(n): a node already present keeps its attributes.
AddNode(g, n) ==
    [g EXCEPT !.nodes = [m \in DOMAIN g.nodes \cup {n} |->
                            IF m \in DOMAIN g.nodes THEN g.nodes[m] ELSE NoAttrs]]

\* Graph.add_edge(u, v, **attr): both endpoints become nodes; the attributes
\* of an edge already present are updated.
AddEdge(g, u, v, attr) ==
    LET h == AddNode(AddNode(g, u), v)
        e == {u, v}
    IN  [h EXCEPT !.edges = [d \in DOMAIN h.edges \cup {e} |->
                                IF d = e
                                THEN attr @@ (IF e \in DOMAIN h.edges
                                              THEN h.edges[e] ELSE NoAttrs)
                                ELSE h.edges[d]]]

\* The frequency stored under the name of the metric, whatever the metric.
RECURSIVE FromPandasEdgelistWrongColumn(_, _)
FromPandasEdgelistWrongColumn(s, t) ==
    IF s = <<>> THEN EmptyGraph
    ELSE LET r == s[Len(s)]
         IN  AddEdge(FromPandasEdgelistWrongColumn(SubSeq(s, 1, Len(s) - 1), t),
                     r.x, r.y, t :> r.f_xy)

\* nx.from_pandas_edgelist(s, 'x', 'y', edge_attr=[t]): the rows in row order.
RECURSIVE FromPandasEdgelist(_, _)
FromPandasEdgelist(s, t) ==
    IF s = <<>> THEN EmptyGraph
    ELSE LET r == s[Len(s)]
         IN  AddEdge(FromPandasEdgelist(SubSeq(s, 1, Len(s) - 1), t),
                     r.x, r.y, t :> r[t])

\* The loop over the words left out: the graph is returned empty.
IsolatedNodesNone(ws) == EmptyGraph

\* graph = nx.Graph(); for word in words: graph.add_node(word)
IsolatedNodes(ws) == [nodes |-> [w \in ws |-> NoAttrs], edges |-> NoAttrs]

\* The branch on df_collocates.empty left out.
BuildGraphNoEmptyBranch(s, ws, t) == FromPandasEdgelist(s, t)

\* The branch on df_collocates.empty.
BuildGraph(s, ws, t) ==
    IF s = <<>> THEN IsolatedNodes(ws) ELSE FromPandasEdgelist(s, t)

\* Every graph a call get_nx_collocation_graph(b, ws, t, n) can return.
get_nx_collocation_graph(b, ws, t, n) ==
    LET d == DropDuplicates(DropDate(b))
        c == XCollocates(d, ws) \o YCollocates(d, ws)
    IN  {BuildGraph(GroupHead(s, n), ws, t) : s \in SortValues(c, t)}

-----------------------------------------------------------------------------
(* Strings: a str is the sequence of its characters *)

\* The characters of the model, with their code points.
CodePoint ==
    (" " :> 32) @@ ("&" :> 38) @@ ("*" :> 42) @@ ("O" :> 79) @@ ("R" :> 82)
    @@ ("a" :> 97) @@ ("d" :> 100) @@ ("n" :> 110) @@ ("o" :> 111) @@ ("r" :> 114)

\* str.lower() and str.casefold(), character by character.
LowerChar(c) == IF c = "O" THEN "o" ELSE IF c = "R" THEN "r" ELSE c
StrLower(s) == [i \in 1..Len(s) |-> LowerChar(s[i])]
Casefold(s) == StrLower(s)

\* str.replace(ch, '')
RECURSIVE StrRemove(_, _)
StrRemove(s, ch) ==
    IF s = <<>> THEN <<>>
    ELSE (IF Head(s) = ch THEN <<>> ELSE <<Head(s)>>) \o StrRemove(Tail(s), ch)

\* str.split(): the maximal runs of characters that are not whitespace.
RECURSIVE SplitFrom(_, _, _)
SplitFrom(s, i, word) ==
    IF i > Len(s) THEN (IF word = <<>> THEN <<>> ELSE <<word>>)
    ELSE IF s[i] = " "
         THEN (IF word = <<>> THEN <<>> ELSE <<word>>) \o SplitFrom(s, i + 1, <<>>)
         ELSE SplitFrom(s, i + 1, Append(word, s[i]))

\* The string iterated instead of split: every character a word.
StrSplitCharacters(s) == [i \in 1..Len(s) |-> <<s[i]>>]

StrSplit(s) == SplitFrom(s, 1, <<>>)

\* a < b for two str: the order of the code points, a proper prefix first.
RECURSIVE StrLess(_, _)
StrLess(a, b) ==
    IF b = <<>> THEN FALSE
    ELSE IF a = <<>> THEN TRUE
    ELSE IF Head(a) = Head(b) THEN StrLess(Tail(a), Tail(b))
    ELSE CodePoint[Head(a)] < CodePoint[Head(b)]

\* sorted(l, key=str.casefold): stable, so equal keys keep their order.
RECURSIVE SortedCasefold(_)
SortedCasefold(l) ==
    IF l = <<>> THEN <<>>
    ELSE LET rest == SortedCasefold(SubSeq(l, 1, Len(l) - 1))
             x == l[Len(l)]
             k == Cardinality({i \in 1..Len(rest) :
                                  ~StrLess(Casefold(x), Casefold(rest[i]))})
         IN  SubSeq(rest, 1, k) \o <<x>> \o SubSeq(rest, k + 1, Len(rest))

-----------------------------------------------------------------------------
(* The taxonomies: tidy_taxonomies, get_taxonomy_categories,                *)
(* get_nx_taxonomies_graph, get_taxonomy_vocabularies                       *)

stopwords == {<<"a", "n", "d">>, <<"&">>, <<"o", "r">>}

\* A dict with key k when the optional value opt is present.
Field(k, opt) == IF opt = <<>> THEN NoAttrs ELSE (k :> opt[1])
HasKey(value, k) == k \in DOMAIN value

\* The stop-words looked up before the word is lower-cased and stripped.
RECURSIVE TidyWordsStopwordsFirst(_)
TidyWordsStopwordsFirst(ws) ==
    IF ws = <<>> THEN <<>>
    ELSE (IF Head(ws) \in stopwords THEN <<>>
          ELSE <<StrRemove(StrLower(Head(ws)), "*")>>)
         \o TidyWordsStopwordsFirst(Tail(ws))

\* The words a vocabulary string contributes: split, lower-cased, asterisks
\* removed, stop-words left out (lines 147-150).
RECURSIVE TidyWords(_)
TidyWords(ws) ==
    IF ws = <<>> THEN <<>>
    ELSE LET word == StrRemove(StrLower(Head(ws)), "*")
         IN  (IF word \in stopwords THEN <<>> ELSE <<word>>) \o TidyWords(Tail(ws))

\* The words of all the strings of a vocabulary, in order.
RECURSIVE TidyVocabulary(_)
TidyVocabulary(strings) ==
    IF strings = <<>> THEN <<>>
    ELSE TidyWords(StrSplit(Head(strings))) \o TidyVocabulary(Tail(strings))

\* str(uuid.uuid4()): the identifiers of a load are numbered as they are
\* issued; c.uuids is the number issued so far.  c.cache is the st.cache of
\* tidy_taxonomies: the value returned for every argument seen so far.
NewCache == [uuids |-> 0, cache |-> NoAttrs]

RECURSIVE tidy_taxonomies_cached(_, _)
RECURSIVE TidyLoop(_, _, _, _)

\* One iteration of the loop of tidy_taxonomies (lines 138-155).
TidyValue(value, c) ==
    LET hasC == HasKey(value, "category")
        hasV == HasKey(value, "vocabulary")
        hasS == HasKey(value, "subcategories")
        category == IF hasC
                    THEN <<[name |-> StrLower(value["category"]), uuid |-> c.uuids + 1]>>
                    ELSE <<>>
        n1 == c.uuids + (IF hasC THEN 1 ELSE 0)
        tokens == IF hasV THEN TidyVocabulary(value["vocabulary"]) ELSE <<>>
        vocabulary == IF hasV
                      THEN <<[i \in 1..Len(tokens) |-> [name |-> tokens[i], uuid |-> n1 + i]]>>
                      ELSE <<>>
        c2 == [c EXCEPT !.uuids = n1 + Len(tokens)]
        sub == IF hasS THEN tidy_taxonomies_cached(value["subcategories"], c2)
               ELSE [out |-> <<>>, c |-> c2]
    IN  [out |-> Field("category", category) @@ Field("vocabulary", vocabulary)
                   @@ Field("subcategories", IF hasS THEN <<sub.out>> ELSE <<>>),
         c |-> sub.c]

TidyLoop(data, i, processed, c) ==
    IF i > Len(data) THEN [out |-> processed, c |-> c]
    ELSE LET r == TidyValue(data[i], c)
         IN  TidyLoop(data, i + 1, Append(processed, r.out), r.c)

\* A call of tidy_taxonomies, decorated with st.cache: an argument seen before
\* gets the value returned then, identifiers included.
tidy_taxonomies_cached(data, c) ==
    IF data \in DOMAIN c.cache THEN [out |-> c.cache[data], c |-> c]
    ELSE LET r == TidyLoop(data, 1, <<>>, c)
         IN  [out |-> r.out,
              c |-> [r.c EXCEPT !.cache = (data :> r.out) @@ r.c.cache]]

\* tidy_taxonomies(data) of a load that starts with nothing cached.
tidy_taxonomies(data) == tidy_taxonomies_cached(data, NewCache).out

\* str.capitalize(): the first character upper-case, the others lower-case.
UpperChar(c) == IF c = "o" THEN "O" ELSE IF c = "r" THEN "R" ELSE c
Capitalize(s) ==
    [i \in 1..Len(s) |-> IF i = 1 THEN UpperChar(s[i]) ELSE LowerChar(s[i])]

\* ' > '.join(path)
RECURSIVE JoinPath(_)
JoinPath(path) ==
    IF path = <<>> THEN <<>>
    ELSE IF Len(path) = 1 THEN path[1]
    ELSE path[1] \o <<" ", ">", " ">> \o JoinPath(Tail(path))

\* get_taxonomy_categories(data, path, level).  The list path is shared with
\* the caller until the slice of line 177 binds a new list: alias tells
\* whether the list bound to path is still the caller's, cur is its content
\* and p0 the content of the caller's list.  The value is the dict returned
\* and the content of the caller's list after the call.
RECURSIVE CategoriesLoop(_, _, _, _, _, _, _)
CategoriesLoop(data, i, categories, cur, alias, p0, level) ==
    IF i > Len(data) THEN [categories |-> categories, path |-> p0]
    ELSE
      LET value == data[i]
          hasC == HasKey(value, "category")
          sliced == hasC /\ level # 0 /\ Len(cur) > level
          alias1 == alias /\ ~sliced
          cur1 == IF ~hasC THEN cur
                  ELSE Append(IF level = 0 THEN <<>>
                              ELSE IF sliced THEN SubSeq(cur, 1, level) ELSE cur,
                              Capitalize(value["category"].name))
          cats1 == IF hasC
                   THEN (value["category"].uuid :> JoinPath(cur1)) @@ categories
                   ELSE categories
          sub == IF HasKey(value, "subcategories")
                 THEN CategoriesLoop(value["subcategories"], 1, NoAttrs,
                                     cur1, TRUE, cur1, level + 1)
                 ELSE [categories |-> NoAttrs, path |-> cur1]
          cur2 == sub.path
      IN  CategoriesLoop(data, i + 1, sub.categories @@ cats1, cur2, alias1,
                         IF alias1 THEN cur2 ELSE p0, level)

\* A call get_taxonomy_categories(data): path is the default list, whose
\* content is kept from call to call.
get_taxonomy_categories(data, path) ==
    CategoriesLoop(data, 1, NoAttrs, path, TRUE, path, 0)

\* A networkx DiGraph: the nodes in the order they were added, the attribute
\* dict of every node, and the edges (u, v).
EmptyDiGraph == [nodes |-> <<>>, attrs |-> NoAttrs, edges |-> {}]

\* DiGraph.add_node(n, label=..., type=...)
DiAddNode(g, n, label, kind) ==
    [nodes |-> IF n \in DOMAIN g.attrs THEN g.nodes ELSE Append(g.nodes, n),
     attrs |-> (n :> [label |-> label, type |-> kind]) @@ g.attrs,
     edges |-> g.edges]

\* DiGraph.add_edge(u, v), both nodes being in the graph already.
DiAddEdge(g, u, v) == [g EXCEPT !.edges = @ \cup {<<u, v>>}]

\* A graph under construction and the exception raised, if any.
Built(g) == [graph |-> g, raised |-> None]
KeyError(g) == [graph |-> g, raised |-> "KeyError"]

\* Lines 206-208: a node per word, and the edge from the category's node;
\* value['category'] of a value without that key raises KeyError.
RECURSIVE GraphWords(_, _, _, _)
GraphWords(value, j, g, terms) ==
    IF j > Len(terms) THEN Built(g)
    ELSE LET g1 == DiAddNode(g, terms[j].uuid, terms[j].name, "vocabulary")
         IN  IF ~HasKey(value, "category") THEN KeyError(g1)
             ELSE GraphWords(value, j + 1,
                             DiAddEdge(g1, value["category"].uuid, terms[j].uuid),
                             terms)

\* get_nx_taxonomies_graph(data, graph, parent): the loop of lines 199-210.
RECURSIVE GraphLoop(_, _, _, _)
GraphLoop(data, i, g, parent) ==
    IF i > Len(data) THEN Built(g)
    ELSE
      LET value == data[i]
          hasC == HasKey(value, "category")
          g1 == IF ~hasC THEN g
                ELSE LET n == DiAddNode(g, value["category"].uuid,
                                        value["category"].name, "category")
                     IN  IF parent # <<>>
                         THEN DiAddEdge(n, parent[1], value["category"].uuid)
                         ELSE n
          r2 == IF HasKey(value, "vocabulary")
                THEN GraphWords(value, 1, g1, value["vocabulary"])
                ELSE Built(g1)
          r3 == IF r2.raised # None \/ ~HasKey(value, "subcategories") THEN r2
                ELSE IF ~hasC THEN KeyError(r2.graph)
                ELSE GraphLoop(value["subcategories"], 1, r2.graph,
                               <<value["category"].uuid>>)
      IN  IF r3.raised # None THEN r3
          ELSE GraphLoop(data, i + 1, r3.graph, parent)

get_nx_taxonomies_graph(data) == GraphLoop(data, 1, EmptyDiGraph, <<>>)

\* nx.descendants(g, source): the nodes reachable from source, source excluded.
RECURSIVE Reachable(_, _)
Reachable(g, S) ==
    LET T == S \cup {e[2] : e \in {d \in g.edges : d[1] \in S}}
    IN  IF T = S THEN S ELSE Reachable(g, T)

\* The successors of source only: the terms of subcategories are missed.
DescendantsChildrenOnly(g, source) ==
    {e[2] : e \in {d \in g.edges : d[1] = source}}

Descendants(g, source) == Reachable(g, {source}) \ {source}

\* The filter on the type of the node left out.
RECURSIVE VocabularyLabelsAnyType(_, _, _)
VocabularyLabelsAnyType(g, S, i) ==
    IF i > Len(g.nodes) THEN <<>>
    ELSE (IF g.nodes[i] \in S THEN <<g.attrs[g.nodes[i]].label>> ELSE <<>>)
         \o VocabularyLabelsAnyType(g, S, i + 1)

\* [y['label'] for x, y in g.nodes(data=True) if y['type'] == 'vocabulary'],
\* restricted to the nodes in S.
RECURSIVE VocabularyLabels(_, _, _)
VocabularyLabels(g, S, i) ==
    IF i > Len(g.nodes) THEN <<>>
    ELSE (IF g.nodes[i] \in S /\ g.attrs[g.nodes[i]].type = "vocabulary"
          THEN <<g.attrs[g.nodes[i]].label>> ELSE <<>>)
         \o VocabularyLabels(g, S, i + 1)

\* An identifier the graph does not have treated as no category.
VocabulariesUnknownAsNone(g, category) ==
    SortedCasefold(
        IF category = <<>> \/ category[1] \notin DOMAIN g.attrs
        THEN VocabularyLabels(g, DOMAIN g.attrs, 1)
        ELSE VocabularyLabels(g, Descendants(g, category[1]), 1))

\* get_taxonomy_vocabularies(graph, category); category is <<>> for None and
\* <<c>> for the value c.
get_taxonomy_vocabularies(g, category) ==
    SortedCasefold(
        IF category = <<>> THEN VocabularyLabels(g, DOMAIN g.attrs, 1)
        ELSE IF category[1] \in DOMAIN g.attrs
             THEN VocabularyLabels(g, Descendants(g, category[1]), 1)
             ELSE <<>>)

-----------------------------------------------------------------------------
(* The taxonomies loaded, and the steps that process them *)

MaxLen == 3
MaxEntries == 2

\* The characters of a vocabulary string, and the strings of at most MaxLen.
Alphabet == {"o", "r", "O", "&", "*", " "}
Strings == UNION {[1..k -> Alphabet] : k \in 0..MaxLen}

\* An optional value that is present.
Some(v) == <<v>>

\* A value of the yaml data: a dict with any of the three keys.
RawValue(c, v, s) ==
    Field("category", c) @@ Field("vocabulary", v) @@ Field("subcategories", s)

\* One category whose vocabulary is any string, alone or followed by another.
FlatTaxonomies ==
    {<<RawValue(Some(<<"O">>), Some(v), <<>>)>> :
        v \in {<<p>> : p \in Strings}
              \cup {<<p, q>> : p \in Strings, q \in {<<"r">>, <<"O", "r", "*">>}}}

\* Sample vocabularies: one word, a stop-word alone, two words in one string.
SampleVocabularies ==
    {<< <<"o">> >>, << <<"O", "r">> >>, << <<"r", " ", "*", "O">> >>}

\* Sample lists of subcategories: a subcategory named as its parent with a
\* term spelled as the category; a value without category; two levels of
\* subcategories beside a sibling; no subcategory.
SampleSubcategories ==
    {<<RawValue(Some(<<"O">>), Some(<< <<"o">> >>), <<>>)>>,
     <<RawValue(<<>>, Some(<< <<"r">> >>), <<>>)>>,
     <<RawValue(Some(<<"R">>), Some(<< <<"r", " ", "o">> >>),
                Some(<<RawValue(Some(<<"O">>), Some(<< <<"r">> >>), <<>>)>>)),
       RawValue(Some(<<"o">>), <<>>, <<>>)>>,
     <<>>}

\* The values at the top of a structured taxonomy.
TopValues ==
    {RawValue(c, v, s) :
        c \in {<<>>, Some(<<"O">>)},
        v \in {<<>>} \cup {Some(x) : x \in SampleVocabularies},
        s \in {<<>>} \cup {Some(x) : x \in SampleSubcategories}}

StructuredTaxonomies == UNION {[1..n -> TopValues] : n \in 0..MaxEntries}

\* Two categories of different names with the same list of subcategories.
TwinTaxonomies ==
    {<<RawValue(Some(<<"O">>), <<>>, Some(s)),
       RawValue(Some(<<"R">>), <<>>, Some(s))>> : s \in SampleSubcategories}

\* load_yaml(...): what the yaml files can hold.
RawTaxonomies == FlatTaxonomies \cup StructuredTaxonomies \cup TwinTaxonomies

\* An identifier that no node of the graph has (uuids are numbered from 1).
UnknownId == 0

TaxInit ==
    /\ raw \in RawTaxonomies
    /\ dict_taxonomies = Unset
    /\ nx_taxonomies = Unset
    /\ taxonomy_categories = Unset
    /\ selected_taxonomy_category = Unset
    /\ vocabularies = Unset
    /\ tax_raised = None
    /\ tax_pc = "tidy"
    /\ path_default = <<>>

\* Line 416: dict_taxonomies = tidy_taxonomies(load_yaml(...))
TidyStep ==
    /\ tax_pc = "tidy"
    /\ dict_taxonomies' = <<tidy_taxonomies(raw)>>
    /\ tax_pc' = "graph"
    /\ UNCHANGED <<raw, nx_taxonomies, taxonomy_categories,
                   selected_taxonomy_category, vocabularies, tax_raised,
                   path_default>>
    /\ UNCHANGED <<collocVars, dashVars, sessVars, selVars>>

\* Line 422: nx_taxonomies = get_nx_taxonomies_graph(dict_taxonomies)
TaxonomiesGraphStep ==
    /\ tax_pc = "graph"
    /\ LET r == get_nx_taxonomies_graph(dict_taxonomies[1])
       IN  IF r.raised # None
           THEN /\ tax_raised' = r.raised
                /\ tax_pc' = "raised"
                /\ UNCHANGED nx_taxonomies
           ELSE /\ nx_taxonomies' = <<r.graph>>
                /\ tax_pc' = "categories"
                /\ UNCHANGED tax_raised
    /\ UNCHANGED <<raw, dict_taxonomies, taxonomy_categories,
                   selected_taxonomy_category, vocabularies, path_default>>
    /\ UNCHANGED <<collocVars, dashVars, sessVars, selVars>>

\* Line 552: taxonomy_categories = get_taxonomy_categories(dict_taxonomies)
CategoriesStep ==
    /\ tax_pc = "categories"
    /\ LET r == get_taxonomy_categories(dict_taxonomies[1], path_default)
       IN  /\ taxonomy_categories' = <<r.categories>>
           /\ path_default' = r.path
    /\ tax_pc' = "vocabularies"
    /\ UNCHANGED <<raw, dict_taxonomies, nx_taxonomies,
                   selected_taxonomy_category, vocabularies, tax_raised>>
    /\ UNCHANGED <<collocVars, dashVars, sessVars, selVars>>

\* Lines 553-555: get_taxonomy_vocabularies(nx_taxonomies, category) for no
\* category, for the identifier of a node, or for one the graph does not have.
VocabulariesStep ==
    /\ tax_pc = "vocabularies"
    /\ \E c \in {<<>>, <<UnknownId>>}
                \cup {<<n>> : n \in DOMAIN nx_taxonomies[1].attrs} :
          /\ selected_taxonomy_category' = <<c>>
          /\ vocabularies' = <<get_taxonomy_vocabularies(nx_taxonomies[1], c)>>
    /\ tax_pc' = "done"
    /\ UNCHANGED <<raw, dict_taxonomies, nx_taxonomies, taxonomy_categories,
                   tax_raised, path_default>>
    /\ UNCHANGED <<collocVars, dashVars, sessVars, selVars>>

\* Line 552 in a later run, once the cached value has expired (ttl): the
\* function is executed again on the same data.
CategoriesAgainStep ==
    /\ tax_pc = "done"
    /\ LET r == get_taxonomy_categories(dict_taxonomies[1], path_default)
       IN  /\ taxonomy_categories' = <<r.categories>>
           /\ path_default' = r.path
    /\ tax_pc' = "again"
    /\ UNCHANGED <<raw, dict_taxonomies, nx_taxonomies,
                   selected_taxonomy_category, vocabularies, tax_raised>>
    /\ UNCHANGED <<collocVars, dashVars, sessVars, selVars>>

-----------------------------------------------------------------------------
(* The data and the widgets of the two pages *)

\* The subsets of the corpus the model loads (two of corpus_subset_options).
Subsets == {"all", "conspiracy"}

\* The days the loaded data covers.
Days == {1, 2}
MinDay == CHOOSE d \in Days : \A e \in Days : d <= e
MaxDay == CHOOSE d \in Days : \A e \in Days : d >= e

\* load_dataframe({...bigrams.csv.gz}): the rows of each subset.
df_bigrams(subset) ==
    IF subset = "all"
    THEN << [date |-> 1, x |-> "truth", y |-> "hoax", f_xy |-> 5, pmi |-> 12],
            [date |-> 1, x |-> "hoax", y |-> "lies", f_xy |-> 9, pmi |-> 4],
            [date |-> 2, x |-> "truth", y |-> "hoax", f_xy |-> 9, pmi |-> 4],
            [date |-> 2, x |-> "lies", y |-> "truth", f_xy |-> 5, pmi |-> 4] >>
    ELSE << [date |-> 1, x |-> "hoax", y |-> "lies", f_xy |-> 9, pmi |-> 4],
            [date |-> 2, x |-> "truth", y |-> "hoax", f_xy |-> 9, pmi |-> 4] >>

\* df_bigrams.loc[subset] restricted to date_start <= date <= date_end.
SelectedBigrams(subset, date_start, date_end) ==
    LET t == df_bigrams(subset)
    IN  TakeRows(t, {i \in 1..Len(t) :
                        t[i].date >= date_start /\ t[i].date <= date_end}, 1)

defaultwords == {"truth", "facts", "lies", "scam", "hoax"}

\* The selections the user makes in the two multiselects.
WordChoices == {{}, {"truth"}, {"scam"}, {"truth", "lies"}, defaultwords}
ExtraWordChoices == {{}, {"hoax"}, {"facts"}}

\* st.number_input(min_value = 1, max_value = 10, value = 7)
NumberOfCollocatesMin == 1
NumberOfCollocatesMax == 10
NumberOfCollocatesDefault == 7
NumberChoices ==
    {n \in (1..MaxTop) \cup {NumberOfCollocatesDefault} :
        n >= NumberOfCollocatesMin /\ n <= NumberOfCollocatesMax}

\* The values of the widgets when a page is first shown.
DefaultWidgets ==
    [corpus_subset |-> "all",
     data_range_start |-> MinDay,
     data_range_end |-> MaxDay,
     ngramChart |-> TRUE,
     collocChart |-> FALSE,
     collocation_type |-> "pmi",
     collocData |-> FALSE,
     selected_words |-> defaultwords,
     selected_collocation_words |-> {},
     number_of_collocates |-> NumberOfCollocatesDefault,
     cf_corpus_subset |-> None]

Pages == {"Dashboard", "About_the_data"}

\* pyvis_save_path and the two artifacts saved under it.
CollocationsHtml == "assets/pyvis_html/collocations.html"
CollocationsCfHtml == "assets/pyvis_html/collocations_cf.html"
ArtifactPaths == {CollocationsHtml, CollocationsCfHtml}

pyvis_config == [width |-> "100%", height |-> "800px"]

\* A document an earlier run saved: the graph it shows is not recorded.
EarlierDocument ==
    [saved_by |-> "an earlier run", network |-> <<>>, config |-> pyvis_config]
node_attributes == ("color" :> "rgba(214,67,137,1)") @@ ("size" :> 14)

-----------------------------------------------------------------------------
(* The steps of a run of Dashboard.py *)

\* The check written with >= : a range of a single day is rejected too.
DateRangeRejectedOrEqual(w) == w.data_range_start >= w.data_range_end

\* The check behind st.error / st.stop on both pages.
DateRangeRejected(w) == w.data_range_start > w.data_range_end

\* The test `n in words_to_collocate` left out: every node is highlighted.
SetNodeAttributesAll(g, ws) ==
    [g EXCEPT !.nodes = [n \in DOMAIN g.nodes |-> node_attributes @@ g.nodes[n]]]

\* nx.set_node_attributes(g, {n: node_attributes for n in g.nodes() if n in ws})
SetNodeAttributes(g, ws) ==
    [g EXCEPT !.nodes = [n \in DOMAIN g.nodes |->
                            IF n \in ws THEN node_attributes @@ g.nodes[n]
                            ELSE g.nodes[n]]]

\* nx.set_edge_attributes(g, {e: {'value': g.edges[e][t]} for e in g.edges()})
SetEdgeAttributes(g, t) ==
    [g EXCEPT !.edges = [e \in DOMAIN g.edges |->
                            ("value" :> g.edges[e][t]) @@ g.edges[e]]]

\* get_pyvis_network(g, pyvis_config) saved as html: the document of a graph.
PyvisHtml(g) == [saved_by |-> "this run", network |-> <<g>>, config |-> pyvis_config]

\* The columns of nx.to_pandas_edgelist(g).
EdgelistColumns(g) ==
    {"source", "target"} \cup UNION {DOMAIN g.edges[e] : e \in DOMAIN g.edges}

\* nx.to_pandas_edgelist(g)[['source', 'target', t]]: the value of t per edge.
SourceData(g, t) == [e \in DOMAIN g.edges |-> g.edges[e][t]]

\* A new run of the script starts: its globals are unset, nothing is displayed.
\* The files stay as they are; what an earlier run saved is from now on
\* recorded as EarlierDocument, whatever graph it was generated from.
FreshRun ==
    /\ script_pc' = "header"
    /\ files' = [f \in ArtifactPaths |->
                    IF files[f] = Unset THEN Unset ELSE <<EarlierDocument>>]
    /\ shown' = <<>>
    /\ words_to_collocate' = Unset
    /\ collocations' = Unset
    /\ cf_collocations' = Unset
    /\ saved' = {}
    /\ displayed' = Unset
    /\ cf_displayed' = Unset
    /\ source_data' = Unset
    /\ cf_source_data' = Unset
    /\ raised' = None

DashInit ==
    /\ page = "Dashboard"
    /\ widgets = DefaultWidgets
    /\ script_pc = "header"
    /\ shown = <<>>
    /\ words_to_collocate = Unset
    /\ collocations = Unset
    /\ cf_collocations = Unset
    /\ saved = {}
    /\ displayed = Unset
    /\ cf_displayed = Unset
    /\ source_data = Unset
    /\ cf_source_data = Unset
    /\ raised = None
    /\ files = [f \in ArtifactPaths |-> Unset]

\* Dashboard.py lines 532-584: the data of the selected range, the title, and
\* the check of the date range.
Header ==
    /\ page = "Dashboard"
    /\ script_pc = "header"
    /\ IF DateRangeRejected(widgets)
       THEN /\ shown' = <<"title", "selection", "date_error">>
            /\ script_pc' = "stopped"
       ELSE /\ shown' = <<"title", "selection">>
            /\ script_pc' = "layout"
    /\ UNCHANGED <<collocVars, taxVars, sessVars, selVars, page, widgets, files, words_to_collocate, collocations,
                   cf_collocations, saved, displayed, cf_displayed,
                   source_data, cf_source_data, raised>>

\* Lines 586-718: the word selector, the taxonomy selector and the sections.
Layout ==
    /\ page = "Dashboard"
    /\ script_pc = "layout"
    /\ shown' = shown \o <<"words_selector", "taxonomy_selector">>
                      \o (IF widgets.ngramChart THEN <<"ngram_header">> ELSE <<>>)
                      \o (IF widgets.collocChart
                          THEN <<"colloc_header", "colloc_selectors">> ELSE <<>>)
    /\ script_pc' = "ngram"
    /\ UNCHANGED <<collocVars, taxVars, sessVars, selVars, page, widgets, files, words_to_collocate, collocations,
                   cf_collocations, saved, displayed, cf_displayed,
                   source_data, cf_source_data, raised>>

\* Lines 728-926: the word frequencies charts.
NgramCharts ==
    /\ page = "Dashboard"
    /\ script_pc = "ngram"
    /\ shown' = shown \o (IF ~widgets.ngramChart THEN <<>>
                          ELSE IF widgets.selected_words # {}
                               THEN <<"ngram_chart">> ELSE <<"ngram_info">>)
    /\ script_pc' = IF widgets.collocChart THEN "colloc_data" ELSE "done"
    /\ UNCHANGED <<collocVars, taxVars, sessVars, selVars, page, widgets, files, words_to_collocate, collocations,
                   cf_collocations, saved, displayed, cf_displayed,
                   source_data, cf_source_data, raised>>

\* The graph to compare to built for selected_words alone, without the
\* selected_collocation_words.
CollocDataCfSelectedWordsOnly ==
    /\ page = "Dashboard"
    /\ script_pc = "colloc_data"
    /\ IF widgets.selected_words # {}
       THEN LET w == widgets.selected_words \cup widgets.selected_collocation_words
            IN  /\ words_to_collocate' = <<w>>
                /\ \E g \in get_nx_collocation_graph(
                           SelectedBigrams(widgets.corpus_subset,
                               widgets.data_range_start, widgets.data_range_end),
                           w, widgets.collocation_type, widgets.number_of_collocates) :
                       collocations' = <<g>>
                /\ IF widgets.cf_corpus_subset # None
                   THEN \E g \in get_nx_collocation_graph(
                               SelectedBigrams(widgets.cf_corpus_subset,
                                   widgets.data_range_start, widgets.data_range_end),
                               widgets.selected_words, widgets.collocation_type, widgets.number_of_collocates) :
                           cf_collocations' = <<g>>
                   ELSE cf_collocations' = cf_collocations
                /\ script_pc' = "colloc_charts"
       ELSE /\ UNCHANGED <<words_to_collocate, collocations, cf_collocations>>
            /\ script_pc' = "display"
    /\ UNCHANGED <<collocVars, taxVars, sessVars, selVars, page, widgets, files, shown, saved, displayed, cf_displayed,
                   source_data, cf_source_data, raised>>

\* The test of line 940 made on the words of both multiselects.
CollocDataWhenAnyWord ==
    /\ page = "Dashboard"
    /\ script_pc = "colloc_data"
    /\ IF widgets.selected_words \cup widgets.selected_collocation_words # {}
       THEN LET w == widgets.selected_words \cup widgets.selected_collocation_words
            IN  /\ words_to_collocate' = <<w>>
                /\ \E g \in get_nx_collocation_graph(
                           SelectedBigrams(widgets.corpus_subset,
                               widgets.data_range_start, widgets.data_range_end),
                           w, widgets.collocation_type, widgets.number_of_collocates) :
                       collocations' = <<g>>
                /\ IF widgets.cf_corpus_subset # None
                   THEN \E g \in get_nx_collocation_graph(
                               SelectedBigrams(widgets.cf_corpus_subset,
                                   widgets.data_range_start, widgets.data_range_end),
                               w, widgets.collocation_type, widgets.number_of_collocates) :
                           cf_collocations' = <<g>>
                   ELSE cf_collocations' = cf_collocations
                /\ script_pc' = "colloc_charts"
       ELSE /\ UNCHANGED <<words_to_collocate, collocations, cf_collocations>>
            /\ script_pc' = "display"
    /\ UNCHANGED <<collocVars, taxVars, sessVars, selVars, page, widgets, files, shown, saved, displayed, cf_displayed,
                   source_data, cf_source_data, raised>>

\* Lines 929-977: the collocation graph, and the one to compare it to.
CollocData ==
    /\ page = "Dashboard"
    /\ script_pc = "colloc_data"
    /\ IF widgets.selected_words # {}
       THEN LET w == widgets.selected_words \cup widgets.selected_collocation_words
            IN  /\ words_to_collocate' = <<w>>
                /\ \E g \in get_nx_collocation_graph(
                           SelectedBigrams(widgets.corpus_subset,
                               widgets.data_range_start, widgets.data_range_end),
                           w, widgets.collocation_type, widgets.number_of_collocates) :
                       collocations' = <<g>>
                /\ IF widgets.cf_corpus_subset # None
                   THEN \E g \in get_nx_collocation_graph(
                               SelectedBigrams(widgets.cf_corpus_subset,
                                   widgets.data_range_start, widgets.data_range_end),
                               w, widgets.collocation_type, widgets.number_of_collocates) :
                           cf_collocations' = <<g>>
                   ELSE cf_collocations' = cf_collocations
                /\ script_pc' = "colloc_charts"
       ELSE /\ UNCHANGED <<words_to_collocate, collocations, cf_collocations>>
            /\ script_pc' = "display"
    /\ UNCHANGED <<collocVars, taxVars, sessVars, selVars, page, widgets, files, shown, saved, displayed, cf_displayed,
                   source_data, cf_source_data, raised>>

\* save_graph that leaves a file that exists as it is.
CollocChartsKeepExisting ==
    /\ page = "Dashboard"
    /\ script_pc = "colloc_charts"
    /\ LET g == SetEdgeAttributes(
                    SetNodeAttributes(collocations[1], words_to_collocate[1]),
                    widgets.collocation_type)
           cf == SetEdgeAttributes(
                     SetNodeAttributes(cf_collocations[1], words_to_collocate[1]),
                     widgets.collocation_type)
       IN  IF widgets.cf_corpus_subset # None
           THEN /\ collocations' = <<g>>
                /\ cf_collocations' = <<cf>>
                /\ files' = [f \in ArtifactPaths |->
                                IF files[f] # Unset THEN files[f]
                                ELSE IF f = CollocationsHtml THEN <<PyvisHtml(g)>>
                                ELSE <<PyvisHtml(cf)>>]
                /\ saved' = {CollocationsHtml, CollocationsCfHtml}
           ELSE /\ collocations' = <<g>>
                /\ cf_collocations' = cf_collocations
                /\ files' = [f \in ArtifactPaths |->
                                IF files[f] # Unset \/ f # CollocationsHtml THEN files[f]
                                ELSE <<PyvisHtml(g)>>]
                /\ saved' = {CollocationsHtml}
    /\ script_pc' = "display"
    /\ UNCHANGED <<collocVars, taxVars, sessVars, selVars, page, widgets, shown, words_to_collocate, displayed,
                   cf_displayed, source_data, cf_source_data, raised>>

\* Lines 1009-1092 (pyvis): node and edge attributes, save_graph, open.
CollocCharts ==
    /\ page = "Dashboard"
    /\ script_pc = "colloc_charts"
    /\ LET g == SetEdgeAttributes(
                    SetNodeAttributes(collocations[1], words_to_collocate[1]),
                    widgets.collocation_type)
           cf == SetEdgeAttributes(
                     SetNodeAttributes(cf_collocations[1], words_to_collocate[1]),
                     widgets.collocation_type)
       IN  IF widgets.cf_corpus_subset # None
           THEN /\ collocations' = <<g>>
                /\ cf_collocations' = <<cf>>
                /\ files' = [files EXCEPT ![CollocationsHtml] = <<PyvisHtml(g)>>,
                                          ![CollocationsCfHtml] = <<PyvisHtml(cf)>>]
                /\ saved' = {CollocationsHtml, CollocationsCfHtml}
           ELSE /\ collocations' = <<g>>
                /\ cf_collocations' = cf_collocations
                /\ files' = [files EXCEPT ![CollocationsHtml] = <<PyvisHtml(g)>>]
                /\ saved' = {CollocationsHtml}
    /\ script_pc' = "display"
    /\ UNCHANGED <<collocVars, taxVars, sessVars, selVars, page, widgets, shown, words_to_collocate, displayed,
                   cf_displayed, source_data, cf_source_data, raised>>

\* Lines 1098-1137 and 1163-1165: the documents are read and displayed.
DisplayCharts ==
    /\ page = "Dashboard"
    /\ script_pc = "display"
    /\ IF widgets.selected_words # {}
       THEN /\ displayed' = files[CollocationsHtml]
            /\ IF widgets.cf_corpus_subset # None
               THEN /\ cf_displayed' = files[CollocationsCfHtml]
                    /\ shown' = shown \o <<"colloc_graph", "cf_colloc_graph">>
               ELSE /\ cf_displayed' = cf_displayed
                    /\ shown' = shown \o <<"colloc_graph">>
            /\ script_pc' = IF widgets.collocData THEN "source" ELSE "done"
       ELSE /\ shown' = shown \o <<"colloc_info">>
            /\ UNCHANGED <<displayed, cf_displayed>>
            /\ script_pc' = "done"
    /\ UNCHANGED <<collocVars, taxVars, sessVars, selVars, page, widgets, files, words_to_collocate, collocations,
                   cf_collocations, saved, source_data, cf_source_data, raised>>

\* Lines 1139-1161: the source data of the graphs; selecting a column the
\* edge list does not have raises KeyError.
SourceDataStep ==
    /\ page = "Dashboard"
    /\ script_pc = "source"
    /\ LET t == widgets.collocation_type
       IN  IF t \notin EdgelistColumns(collocations[1])
           THEN /\ raised' = "KeyError"
                /\ script_pc' = "raised"
                /\ UNCHANGED <<shown, source_data, cf_source_data>>
           ELSE IF widgets.cf_corpus_subset = None
           THEN /\ source_data' = <<SourceData(collocations[1], t)>>
                /\ shown' = shown \o <<"colloc_source">>
                /\ script_pc' = "done"
                /\ UNCHANGED <<cf_source_data, raised>>
           ELSE IF t \notin EdgelistColumns(cf_collocations[1])
           THEN /\ source_data' = <<SourceData(collocations[1], t)>>
                /\ raised' = "KeyError"
                /\ script_pc' = "raised"
                /\ UNCHANGED <<shown, cf_source_data>>
           ELSE /\ source_data' = <<SourceData(collocations[1], t)>>
                /\ cf_source_data' = <<SourceData(cf_collocations[1], t)>>
                /\ shown' = shown \o <<"colloc_source", "cf_colloc_source">>
                /\ script_pc' = "done"
                /\ UNCHANGED raised
    /\ UNCHANGED <<collocVars, taxVars, sessVars, selVars, page, widgets, files, words_to_collocate, collocations,
                   cf_collocations, saved, displayed, cf_displayed>>

-----------------------------------------------------------------------------
(* The steps of a run of pages/About_the_data.py *)

\* About_the_data.py lines 104-134: the data of the selected range, the
\* title, the summary and the check of the date range.
AboutHeader ==
    /\ page = "About_the_data"
    /\ script_pc = "header"
    /\ IF DateRangeRejected(widgets)
       THEN /\ shown' = <<"title", "selection", "date_error">>
            /\ script_pc' = "stopped"
       ELSE /\ shown' = <<"title", "selection">>
            /\ script_pc' = "about_charts"
    /\ UNCHANGED <<collocVars, taxVars, sessVars, selVars, page, widgets, files, words_to_collocate, collocations,
                   cf_collocations, saved, displayed, cf_displayed,
                   source_data, cf_source_data, raised>>

\* Lines 137-310: the overview and the charts of the daily statistics.
AboutCharts ==
    /\ page = "About_the_data"
    /\ script_pc = "about_charts"
    /\ shown' = shown \o <<"overview", "tweets_chart", "retweets_chart",
                           "favourites_chart", "replies_chart", "quotes_chart",
                           "accounts_chart">>
    /\ script_pc' = "done"
    /\ UNCHANGED <<collocVars, taxVars, sessVars, selVars, page, widgets, files, words_to_collocate, collocations,
                   cf_collocations, saved, displayed, cf_displayed,
                   source_data, cf_source_data, raised>>

-----------------------------------------------------------------------------
(* What the user does between two runs; each starts a new run of the script *)

RunEnded == script_pc \in {"done", "stopped", "raised"}
Displayed(element) == \E i \in 1..Len(shown) : shown[i] = element

\* The sidebar form of either page: a new date range.
SetDateRange ==
    /\ RunEnded
    /\ \E s \in Days, e \in Days :
          /\ <<s, e>> # <<widgets.data_range_start, widgets.data_range_end>>
          /\ widgets' = [widgets EXCEPT !.data_range_start = s,
                                        !.data_range_end = e]
    /\ FreshRun
    /\ UNCHANGED <<collocVars, taxVars, sessVars, selVars, page>>

\* The sidebar form of the dashboard: subset, toggles, collocation type.
SetCorpusSubset ==
    /\ RunEnded
    /\ page = "Dashboard"
    /\ \E c \in Subsets \ {widgets.corpus_subset} :
          widgets' = [widgets EXCEPT !.corpus_subset = c]
    /\ FreshRun
    /\ UNCHANGED <<collocVars, taxVars, sessVars, selVars, page>>

ToggleNgramChart ==
    /\ RunEnded
    /\ page = "Dashboard"
    /\ widgets' = [widgets EXCEPT !.ngramChart = ~@]
    /\ FreshRun
    /\ UNCHANGED <<collocVars, taxVars, sessVars, selVars, page>>

ToggleCollocChart ==
    /\ RunEnded
    /\ page = "Dashboard"
    /\ widgets' = [widgets EXCEPT !.collocChart = ~@]
    /\ FreshRun
    /\ UNCHANGED <<collocVars, taxVars, sessVars, selVars, page>>

ToggleCollocData ==
    /\ RunEnded
    /\ page = "Dashboard"
    /\ widgets' = [widgets EXCEPT !.collocData = ~@]
    /\ FreshRun
    /\ UNCHANGED <<collocVars, taxVars, sessVars, selVars, page>>

SetCollocationType ==
    /\ RunEnded
    /\ page = "Dashboard"
    /\ \E t \in CollocationTypes \ {widgets.collocation_type} :
          widgets' = [widgets EXCEPT !.collocation_type = t]
    /\ FreshRun
    /\ UNCHANGED <<collocVars, taxVars, sessVars, selVars, page>>

\* The form 'Words to explore', when the last run displayed it.
SelectWords ==
    /\ RunEnded
    /\ Displayed("words_selector")
    /\ \E ws \in WordChoices \ {widgets.selected_words} :
          widgets' = [widgets EXCEPT !.selected_words = ws]
    /\ FreshRun
    /\ UNCHANGED <<collocVars, taxVars, sessVars, selVars, page>>

\* The widgets of the collocation section, when the last run displayed them.
SelectCollocationWords ==
    /\ RunEnded
    /\ Displayed("colloc_selectors")
    /\ \E ws \in ExtraWordChoices \ {widgets.selected_collocation_words} :
          widgets' = [widgets EXCEPT !.selected_collocation_words = ws]
    /\ FreshRun
    /\ UNCHANGED <<collocVars, taxVars, sessVars, selVars, page>>

SetNumberOfCollocates ==
    /\ RunEnded
    /\ Displayed("colloc_selectors")
    /\ \E n \in NumberChoices \ {widgets.number_of_collocates} :
          widgets' = [widgets EXCEPT !.number_of_collocates = n]
    /\ FreshRun
    /\ UNCHANGED <<collocVars, taxVars, sessVars, selVars, page>>

SetCompareTo ==
    /\ RunEnded
    /\ Displayed("colloc_selectors")
    /\ \E c \in (Subsets \cup {None}) \ {widgets.cf_corpus_subset} :
          widgets' = [widgets EXCEPT !.cf_corpus_subset = c]
    /\ FreshRun
    /\ UNCHANGED <<collocVars, taxVars, sessVars, selVars, page>>

\* The other page is opened: its widgets start from their defaults.
Navigate ==
    /\ RunEnded
    /\ \E p \in Pages \ {page} : page' = p
    /\ widgets' = DefaultWidgets
    /\ FreshRun
    /\ UNCHANGED <<collocVars, taxVars, sessVars, selVars>>

-----------------------------------------------------------------------------
(* get_nx_collocation_graph, statement by statement *)

\* A call: the caller passes at least one word (Dashboard.py line 940).
CollocInit ==
    /\ bigrams \in Tables
    /\ words \in (SUBSET WordSet) \ {{}}
    /\ type \in CollocationTypes
    /\ top \in 0..MaxTop
    /\ df = <<>>
    /\ x_collocates = <<>>
    /\ y_collocates = <<>>
    /\ df_collocates = <<>>
    /\ graph = Unset
    /\ pc = "extract"

\* Lines 246-256: drop the date, drop duplicate rows, extract both subsets.
ExtractStep ==
    /\ pc = "extract"
    /\ df' = DropDuplicates(DropDate(bigrams))
    /\ x_collocates' = XCollocates(df', words)
    /\ y_collocates' = YCollocates(df', words)
    /\ pc' = "sort"
    /\ UNCHANGED <<bigrams, words, type, top, df_collocates, graph, dashVars, taxVars, sessVars, selVars>>

\* Lines 258-262: concatenate, sort, keep the head of every group.
SortHeadStep ==
    /\ pc = "sort"
    /\ \E s \in SortValues(x_collocates \o y_collocates, type) :
            df_collocates' = GroupHead(s, top)
    /\ pc' = "graph"
    /\ UNCHANGED <<bigrams, words, type, top, df, x_collocates, y_collocates,
                   graph, dashVars, taxVars, sessVars, selVars>>

\* Lines 264-274: build the graph and return it.
GraphStep ==
    /\ pc = "graph"
    /\ graph' = BuildGraph(df_collocates, words, type)
    /\ pc' = "return"
    /\ UNCHANGED <<bigrams, words, type, top,
                   df, x_collocates, y_collocates, df_collocates, dashVars,
                   taxVars, sessVars, selVars>>

-----------------------------------------------------------------------------
(* Two sessions that run Dashboard.py against the same assets/pyvis_html *)

Sessions == {1, 2}

\* The words a session has selected; its other widgets keep their defaults.
SessionWordChoices == {{"truth"}, {"hoax"}, {"truth", "lies"}}

\* No second session is being followed.
SessionsIdle ==
    /\ session_pc = [s \in Sessions |-> "idle"]
    /\ session_collocations = [s \in Sessions |-> Unset]
    /\ session_displayed = [s \in Sessions |-> Unset]

\* Both sessions are about to build their graph.
SessionsInit ==
    /\ session_pc = [s \in Sessions |-> "data"]
    /\ session_collocations = [s \in Sessions |-> Unset]
    /\ session_displayed = [s \in Sessions |-> Unset]

\* Lines 953-961 and 1038-1057: the graph of a session and its attributes.
SessionData ==
    \E s \in Sessions :
        /\ session_pc[s] = "data"
        /\ \E w \in SessionWordChoices :
              \E g \in get_nx_collocation_graph(
                           SelectedBigrams(DefaultWidgets.corpus_subset,
                               MinDay, MaxDay),
                           w, DefaultWidgets.collocation_type,
                           DefaultWidgets.number_of_collocates) :
                 session_collocations' =
                     [session_collocations EXCEPT ![s] =
                         <<SetEdgeAttributes(SetNodeAttributes(g, w),
                                             DefaultWidgets.collocation_type)>>]
        /\ session_pc' = [session_pc EXCEPT ![s] = "save"]
        /\ UNCHANGED <<collocVars, dashVars, taxVars, selVars, session_displayed>>

\* Line 1061: save_graph writes collocations.html under pyvis_save_path.
SessionSave ==
    \E s \in Sessions :
        /\ session_pc[s] = "save"
        /\ files' = [files EXCEPT ![CollocationsHtml] =
                        <<PyvisHtml(session_collocations[s][1])>>]
        /\ session_pc' = [session_pc EXCEPT ![s] = "open"]
        /\ UNCHANGED <<collocVars, taxVars, selVars, page, widgets, runVars,
                       session_collocations, session_displayed>>

\* Line 1062: the file is opened; nothing is read yet.
SessionOpen ==
    \E s \in Sessions :
        /\ session_pc[s] = "open"
        /\ session_pc' = [session_pc EXCEPT ![s] = "display"]
        /\ UNCHANGED <<collocVars, dashVars, taxVars, selVars,
                       session_collocations, session_displayed>>

\* The document of the session's own graph displayed, whatever the file holds.
SessionDisplayOwnDocument ==
    \E s \in Sessions :
        /\ session_pc[s] = "display"
        /\ session_displayed' =
              [session_displayed EXCEPT ![s] =
                  <<PyvisHtml(session_collocations[s][1])>>]
        /\ session_pc' = [session_pc EXCEPT ![s] = "done"]
        /\ UNCHANGED <<collocVars, dashVars, taxVars, selVars, session_collocations>>

\* Line 1112: read() returns what the file holds now, and it is displayed.
SessionDisplay ==
    \E s \in Sessions :
        /\ session_pc[s] = "display"
        /\ session_displayed' =
              [session_displayed EXCEPT ![s] = files[CollocationsHtml]]
        /\ session_pc' = [session_pc EXCEPT ![s] = "done"]
        /\ UNCHANGED <<collocVars, dashVars, taxVars, selVars, session_collocations>>

\* The user of a session changes a widget: its script runs again.
SessionRerun ==
    \E s \in Sessions :
        /\ session_pc[s] = "done"
        /\ session_pc' = [session_pc EXCEPT ![s] = "data"]
        /\ session_collocations' = [session_collocations EXCEPT ![s] = Unset]
        /\ session_displayed' = [session_displayed EXCEPT ![s] = Unset]
        /\ UNCHANGED <<collocVars, dashVars, taxVars, selVars>>

-----------------------------------------------------------------------------
(* The selectors of the dashboard: words, taxonomy category, compare to *)

\* The taxonomies loaded: a category with a term and a subcategory with a
\* term of its own, and a category without vocabulary.
SelectorRaw ==
    <<RawValue(Some(<<"O">>), Some(<< <<"o">> >>),
               Some(<<RawValue(Some(<<"R">>), Some(<< <<"r">> >>), <<>>)>>)),
      RawValue(Some(<<"O", "r">>), <<>>, <<>>)>>

SelectorTaxonomies == tidy_taxonomies(SelectorRaw)
SelectorGraph == get_nx_taxonomies_graph(SelectorTaxonomies).graph
SelectorCategories == get_taxonomy_categories(SelectorTaxonomies, <<>>).categories

\* defaultwords, a word being the sequence of its characters.
DefaultWordList ==
    << <<"t", "r", "u", "t", "h">>, <<"f", "a", "c", "t", "s">>,
       <<"l", "i", "e", "s">>, <<"s", "c", "a", "m">>, <<"h", "o", "a", "x">> >>

\* df_unigrams['word'].drop_duplicates(): the default words occur in the
\* corpus, the term "r" of the taxonomies does not.
allwords == DefaultWordList \o << <<"o">> >>

\* The keys of corpus_subset_options the model loads.
SubsetList == <<"all", "conspiracy">>

\* The option 'None' of the category selector, the default [] of
\* st.session_state.get (line 555), and an identifier of an earlier load of
\* the taxonomies: none of them is a node of the graph.
NoneOption == -1
EmptyList == -2
StaleId == 0

\* st.session_state.get(key, default)
Get(opt, default) == IF opt = Unset THEN default ELSE opt[1]

Range(l) == {l[i] : i \in 1..Len(l)}

\* list.index(v), for a v that is in the list.
IndexOf(l, v) == (CHOOSE i \in 1..Len(l) : l[i] = v /\ \A j \in 1..(i - 1) : l[j] # v) - 1

\* The keys of a dict in insertion order: the categories are inserted in the
\* order in which tidy_taxonomies numbered them.
RECURSIVE Keys(_)
Keys(d) ==
    IF DOMAIN d = {} THEN <<>>
    ELSE LET k == CHOOSE a \in DOMAIN d : \A b \in DOMAIN d : a <= b
         IN  <<k>> \o Keys([b \in DOMAIN d \ {k} |-> d[b]])

\* Line 553: taxonomy_vocabularies
taxonomy_vocabularies == get_taxonomy_vocabularies(SelectorGraph, <<>>)

\* The options of line 555 alone, without the selected words of line 562.
WordsOptionsOfCategoryOnly(ss) ==
    LET options == get_taxonomy_vocabularies(SelectorGraph,
                       <<Get(ss.selected_taxonomy_category, EmptyList)>>)
    IN  IF Len(options) > 0 THEN options
        ELSE DropDuplicates(allwords \o taxonomy_vocabularies)

\* Lines 555-568: selected_words_options
WordsOptions(ss) ==
    LET options == get_taxonomy_vocabularies(SelectorGraph,
                       <<Get(ss.selected_taxonomy_category, EmptyList)>>)
    IN  IF Len(options) > 0
        THEN DropDuplicates(options \o Get(ss.selected_words, <<>>))
        ELSE DropDuplicates(allwords \o taxonomy_vocabularies)

\* Lines 662-666: selected_collocation_words_options
CollocationWordsOptions(options, ss) ==
    LET chosen == Range(Get(ss.selected_words, <<>>))
    IN  DropDuplicates(
            TakeRows(options, {i \in 1..Len(options) : options[i] \notin chosen}, 1)
            \o Get(ss.selected_collocation_words, <<>>))

\* Lines 601-602 and 683-684: the options of the two selectboxes.
selected_taxonomy_category_options == <<NoneOption>> \o Keys(SelectorCategories)
cf_corpus_subset_options == <<None>> \o SubsetList

\* The last option instead of the first for a value that is not an option.
IndexOrLast(options, opt, default) ==
    IF Get(opt, default) \in Range(options)
    THEN IndexOf(options, Get(opt, default)) ELSE Len(options) - 1

\* Lines 603-606 and 686-689: the index of the remembered value, or 0.
IndexOrDefault(options, opt, default) ==
    IF Get(opt, default) \in Range(options)
    THEN IndexOf(options, Get(opt, default)) ELSE 0

\* The values a selectbox with key k can leave in st.session_state: the
\* remembered value, or the option at the index when there was none; for a
\* remembered value that is not an option, either of the two.
SelectboxValues(options, opt, index) ==
    IF opt = Unset THEN {options[index + 1]}
    ELSE IF opt[1] \in Range(options) THEN {opt[1]}
    ELSE {opt[1], options[index + 1]}

\* The selections the user can make in a multiselect: up to k of its options.
Selections(options, k) ==
    {<<>>}
    \cup {<<a>> : a \in Range(options)}
    \cup (IF k < 2 THEN {}
          ELSE {q \in Range(options) \X Range(options) : q[1] # q[2]})

\* No run of the selectors is being followed.
SelectorsIdle ==
    /\ session_state = NoAttrs
    /\ colloc_section = FALSE
    /\ selected_words_options = Unset
    /\ selected_collocation_words_options = Unset
    /\ selected_taxonomy_category_index = Unset
    /\ cf_corpus_subset_index = Unset
    /\ selector_raised = None
    /\ selector_pc = "idle"

\* A new session: st.session_state has none of the keys of the widgets.
SelectorsInit ==
    /\ session_state = [selected_words |-> Unset,
                        selected_collocation_words |-> Unset,
                        selected_taxonomy_category |-> Unset,
                        cf_corpus_subset |-> Unset]
    /\ colloc_section \in BOOLEAN
    /\ selected_words_options = Unset
    /\ selected_collocation_words_options = Unset
    /\ selected_taxonomy_category_index = Unset
    /\ cf_corpus_subset_index = Unset
    /\ selector_raised = None
    /\ selector_pc = "options"

\* Lines 552-568: the options of 'Words to explore'.
OptionsStep ==
    /\ selector_pc = "options"
    /\ selected_words_options' = <<WordsOptions(session_state)>>
    /\ selector_pc' = "words"
    /\ UNCHANGED <<session_state, colloc_section,
                   selected_collocation_words_options,
                   selected_taxonomy_category_index, cf_corpus_subset_index,
                   selector_raised>>
    /\ UNCHANGED <<collocVars, dashVars, taxVars, sessVars>>

\* Lines 586-597: st.multiselect raises StreamlitAPIException when a default
\* value is not among the options.
WordsSelectorStep ==
    /\ selector_pc = "words"
    /\ LET default == Get(session_state.selected_words, DefaultWordList)
       IN  IF Range(default) \subseteq Range(selected_words_options[1])
           THEN /\ session_state' =
                      [session_state EXCEPT !.selected_words = <<default>>]
                /\ selector_pc' = "category"
                /\ UNCHANGED selector_raised
           ELSE /\ selector_raised' = "StreamlitAPIException"
                /\ selector_pc' = "raised"
                /\ UNCHANGED session_state
    /\ UNCHANGED <<colloc_section, selected_words_options,
                   selected_collocation_words_options,
                   selected_taxonomy_category_index, cf_corpus_subset_index>>
    /\ UNCHANGED <<collocVars, dashVars, taxVars, sessVars>>

\* Lines 599-614: the selectbox of the taxonomy category.
TaxonomySelectorStep ==
    /\ selector_pc = "category"
    /\ LET index == IndexOrDefault(selected_taxonomy_category_options,
                        session_state.selected_taxonomy_category, NoneOption)
       IN  /\ selected_taxonomy_category_index' = <<index>>
           /\ \E v \in SelectboxValues(selected_taxonomy_category_options,
                           session_state.selected_taxonomy_category, index) :
                 session_state' =
                     [session_state EXCEPT !.selected_taxonomy_category = <<v>>]
    /\ selector_pc' = IF colloc_section THEN "colloc" ELSE "done"
    /\ UNCHANGED <<colloc_section, selected_words_options,
                   selected_collocation_words_options, cf_corpus_subset_index,
                   selector_raised>>
    /\ UNCHANGED <<collocVars, dashVars, taxVars, sessVars>>

\* Lines 658-696: 'Additional words to collocate' and 'Compare to'.
CollocSelectorsStep ==
    /\ selector_pc = "colloc"
    /\ LET options == CollocationWordsOptions(selected_words_options[1],
                                              session_state)
           default == Get(session_state.selected_collocation_words, <<>>)
           index == IndexOrDefault(cf_corpus_subset_options,
                                   session_state.cf_corpus_subset, None)
       IN  /\ selected_collocation_words_options' = <<options>>
           /\ IF Range(default) \subseteq Range(options)
              THEN /\ cf_corpus_subset_index' = <<index>>
                   /\ \E v \in SelectboxValues(cf_corpus_subset_options,
                                   session_state.cf_corpus_subset, index) :
                         session_state' =
                             [session_state EXCEPT
                                 !.selected_collocation_words = <<default>>,
                                 !.cf_corpus_subset = <<v>>]
                   /\ selector_pc' = "done"
                   /\ UNCHANGED selector_raised
              ELSE /\ selector_raised' = "StreamlitAPIException"
                   /\ selector_pc' = "raised"
                   /\ UNCHANGED <<session_state, cf_corpus_subset_index>>
    /\ UNCHANGED <<colloc_section, selected_words_options,
                   selected_taxonomy_category_index>>
    /\ UNCHANGED <<collocVars, dashVars, taxVars, sessVars>>

\* A widget changed: the script runs again, with st.session_state as it is.
Rerun ==
    /\ selector_pc' = "options"
    /\ selected_words_options' = Unset
    /\ selected_collocation_words_options' = Unset
    /\ selected_taxonomy_category_index' = Unset
    /\ cf_corpus_subset_index' = Unset
    /\ UNCHANGED selector_raised

\* The user selects up to two of the options of 'Words to explore'.
UserSelectsWords ==
    /\ selector_pc = "done"
    /\ \E ws \in Selections(selected_words_options[1], 2) :
          /\ <<ws>> # session_state.selected_words
          /\ session_state' = [session_state EXCEPT !.selected_words = <<ws>>]
    /\ Rerun
    /\ UNCHANGED colloc_section
    /\ UNCHANGED <<collocVars, dashVars, taxVars, sessVars>>

\* The user selects up to one of the 'Additional words to collocate'.
UserSelectsCollocationWords ==
    /\ selector_pc = "done"
    /\ selected_collocation_words_options # Unset
    /\ \E ws \in Selections(selected_collocation_words_options[1], 1) :
          /\ <<ws>> # session_state.selected_collocation_words
          /\ session_state' =
                 [session_state EXCEPT !.selected_collocation_words = <<ws>>]
    /\ Rerun
    /\ UNCHANGED colloc_section
    /\ UNCHANGED <<collocVars, dashVars, taxVars, sessVars>>

\* The user selects a taxonomy category, or 'None'.
UserSelectsCategory ==
    /\ selector_pc = "done"
    /\ \E c \in Range(selected_taxonomy_category_options) :
          /\ <<c>> # session_state.selected_taxonomy_category
          /\ session_state' =
                 [session_state EXCEPT !.selected_taxonomy_category = <<c>>]
    /\ Rerun
    /\ UNCHANGED colloc_section
    /\ UNCHANGED <<collocVars, dashVars, taxVars, sessVars>>

\* The user selects a subset to compare to, or 'None'.
UserSelectsCompareTo ==
    /\ selector_pc = "done"
    /\ cf_corpus_subset_index # Unset
    /\ \E c \in Range(cf_corpus_subset_options) :
          /\ <<c>> # session_state.cf_corpus_subset
          /\ session_state' = [session_state EXCEPT !.cf_corpus_subset = <<c>>]
    /\ Rerun
    /\ UNCHANGED colloc_section
    /\ UNCHANGED <<collocVars, dashVars, taxVars, sessVars>>

\* The user checks or unchecks 'Show word collocations'.
UserTogglesCollocSection ==
    /\ selector_pc = "done"
    /\ colloc_section' = ~colloc_section
    /\ Rerun
    /\ UNCHANGED session_state
    /\ UNCHANGED <<collocVars, dashVars, taxVars, sessVars>>

\* The cached taxonomies expire (ttl) and are loaded again: every category
\* gets a new uuid, so the identifier the session remembers is no longer a
\* key of taxonomy_categories nor a node of the graph.
TaxonomiesReloaded ==
    /\ selector_pc = "done"
    /\ session_state.selected_taxonomy_category # Unset
    /\ session_state.selected_taxonomy_category[1] \in DOMAIN SelectorCategories
    /\ session_state' =
           [session_state EXCEPT !.selected_taxonomy_category = <<StaleId>>]
    /\ Rerun
    /\ UNCHANGED colloc_section
    /\ UNCHANGED <<collocVars, dashVars, taxVars, sessVars>>

-----------------------------------------------------------------------------
(* The specifications *)

\* The taxonomies are not being stepped through.
TaxIdle ==
    /\ raw = <<>>
    /\ dict_taxonomies = Unset
    /\ nx_taxonomies = Unset
    /\ taxonomy_categories = Unset
    /\ selected_taxonomy_category = Unset
    /\ vocabularies = Unset
    /\ tax_raised = None
    /\ tax_pc = "idle"
    /\ path_default = <<>>

\* No call of get_nx_collocation_graph is being stepped through.
CollocIdle ==
    /\ bigrams = <<>>
    /\ words = {}
    /\ type = "pmi"
    /\ top = NumberOfCollocatesDefault
    /\ df = <<>>
    /\ x_collocates = <<>>
    /\ y_collocates = <<>>
    /\ df_collocates = <<>>
    /\ graph = Unset
    /\ pc = "idle"

CollocNext ==
    \/ ExtractStep
    \/ SortHeadStep
    \/ GraphStep

\* A call of get_nx_collocation_graph begins, outside of any render cycle.
InitColloc == CollocInit /\ DashInit /\ TaxIdle /\ SessionsIdle /\ SelectorsIdle

\* One call of get_nx_collocation_graph, on every input within the bounds.
SpecColloc == InitColloc /\ [][CollocNext]_vars

Init == CollocIdle /\ DashInit /\ TaxIdle /\ SessionsIdle /\ SelectorsIdle

Next ==
    \/ Header
    \/ Layout
    \/ NgramCharts
    \/ CollocData
    \/ CollocCharts
    \/ DisplayCharts
    \/ SourceDataStep
    \/ AboutHeader
    \/ AboutCharts
    \/ SetDateRange
    \/ SetCorpusSubset
    \/ ToggleNgramChart
    \/ ToggleCollocChart
    \/ ToggleCollocData
    \/ SetCollocationType
    \/ SelectWords
    \/ SelectCollocationWords
    \/ SetNumberOfCollocates
    \/ SetCompareTo
    \/ Navigate

\* The render cycles of a browser session.
Spec == Init /\ [][Next]_vars

InitTaxonomy == CollocIdle /\ DashInit /\ TaxInit /\ SessionsIdle /\ SelectorsIdle

TaxNext ==
    \/ TidyStep
    \/ TaxonomiesGraphStep
    \/ CategoriesStep
    \/ VocabulariesStep
    \/ CategoriesAgainStep

\* One load of the taxonomies, on every yaml data within the bounds.
SpecTaxonomy == InitTaxonomy /\ [][TaxNext]_vars

InitSessions == CollocIdle /\ DashInit /\ TaxIdle /\ SessionsInit /\ SelectorsIdle

SessionsNext ==
    \/ SessionData
    \/ SessionSave
    \/ SessionOpen
    \/ SessionDisplay
    \/ SessionRerun

\* Two sessions, their steps interleaved in any order.
SpecSessions == InitSessions /\ [][SessionsNext]_vars

InitSelectors ==
    CollocIdle /\ DashInit /\ TaxIdle /\ SessionsIdle /\ SelectorsInit

SelectorsNext ==
    \/ OptionsStep
    \/ WordsSelectorStep
    \/ TaxonomySelectorStep
    \/ CollocSelectorsStep
    \/ UserSelectsWords
    \/ UserSelectsCollocationWords
    \/ UserSelectsCategory
    \/ UserSelectsCompareTo
    \/ UserTogglesCollocSection
    \/ TaxonomiesReloaded

\* The runs of a session, as far as its selectors go.
SpecSelectors == InitSelectors /\ [][SelectorsNext]_vars

-----------------------------------------------------------------------------
(* Properties of get_nx_collocation_graph (checked under SpecColloc) *)

Returned == pc = "return"
Truncated == pc \in {"graph", "return"}

\* The rows selected and swapped, before sorting and truncation.
Selected == x_collocates \o y_collocates

Rows(s) == {s[i] : i \in 1..Len(s)}
Count(s, r) == Cardinality({i \in 1..Len(s) : s[i] = r})
RowsOf(s, w) == {i \in 1..Len(s) : s[i].x = w}
Nodes(g) == DOMAIN g.nodes
Edges(g) == DOMAIN g.edges
Degree(g, n) == Cardinality({e \in Edges(g) : n \in e})

\* A row of table b has a word of ws as one of its members.
Matches(b, ws) == \E i \in 1..Len(b) : b[i].x \in ws \/ b[i].y \in ws

\* C1: for top >= 1, at most top of the rows that survive the truncation have
\* any given focus word as their source, so a focus word contributes at most
\* top edges as source.
C1_AtMostTopRowsPerSource ==
    (Truncated /\ top >= 1) =>
        \A w \in words :
            /\ Cardinality(RowsOf(df_collocates, w)) <= top
            /\ Returned =>
                  Cardinality({e \in Edges(graph) :
                      \E i \in RowsOf(df_collocates, w) :
                          e = {df_collocates[i].x, df_collocates[i].y}}) <= top

\* C1's case: a focus word had more than top rows and keeps exactly top,
\* while some node of the graph has a degree above top.
C1_Witness ==
    /\ Returned
    /\ top >= 1
    /\ \E w \in words :
          /\ Cardinality(RowsOf(Selected, w)) > top
          /\ Cardinality(RowsOf(df_collocates, w)) = top
    /\ \E n \in Nodes(graph) : Degree(graph, n) > top

\* C2: when no row of the table has a focus word as either member, the graph
\* returned has exactly the focus words as nodes and no edge.
C2_NoMatchGivesIsolatedFocusWords ==
    (Returned /\ ~Matches(bigrams, words)) =>
        /\ Nodes(graph) = words
        /\ Edges(graph) = {}

\* C2's case: a table with rows, none of them about a focus word.
C2_Witness ==
    /\ Returned
    /\ Len(bigrams) = MaxRows
    /\ ~Matches(bigrams, words)
    /\ Nodes(graph) = words

\* C3: every focus word is a node of the graph returned, also a focus word
\* that matches no row while another focus word matches rows.
C3_EveryFocusWordIsANode ==
    Returned => words \subseteq Nodes(graph)

\* C4: every surviving row has a focus word as its source, every edge has an
\* endpoint among the focus words, every node and every edge comes from a row
\* of the table with a focus word as a member, and the scenario of the
\* specification yields nodes {truth, hoax} and the edge truth-hoax of weight 5.
C4_OnlyFocusRowsContribute ==
    /\ Truncated => \A i \in 1..Len(df_collocates) : df_collocates[i].x \in words
    /\ Returned =>
          /\ \A e \in Edges(graph) : e \cap words # {}
          /\ \A e \in Edges(graph) :
                \E i \in 1..Len(bigrams) :
                    /\ e = {bigrams[i].x, bigrams[i].y}
                    /\ e \cap words # {}
          /\ \A n \in Nodes(graph) \ words :
                \E i \in 1..Len(bigrams) :
                    /\ n \in {bigrams[i].x, bigrams[i].y}
                    /\ {bigrams[i].x, bigrams[i].y} \cap words # {}
    /\ ( /\ Returned
         /\ DropDate(bigrams) =
                << [x |-> "truth", y |-> "hoax", f_xy |-> 5, pmi |-> 12],
                   [x |-> "hoax", y |-> "lies", f_xy |-> 9, pmi |-> 4] >>
         /\ words = {"truth"}
         /\ type = "f_xy"
         /\ top = 1 ) =>
            graph = [nodes |-> [n \in {"truth", "hoax"} |-> NoAttrs],
                     edges |-> [e \in {{"truth", "hoax"}} |-> ("f_xy" :> 5)]]

\* C4's case: the scenario of the specification, with its row hoax-lies that
\* has no focus word.
C4_Witness ==
    /\ Returned
    /\ DropDate(bigrams) =
           << [x |-> "truth", y |-> "hoax", f_xy |-> 5, pmi |-> 12],
              [x |-> "hoax", y |-> "lies", f_xy |-> 9, pmi |-> 4] >>
    /\ words = {"truth"}
    /\ type = "f_xy"
    /\ top = 1
    /\ "lies" \notin Nodes(graph)

\* C5: no row of a focus word that the truncation discarded has a strictly
\* greater value of the chosen metric than a row of that focus word it kept.
C5_KeptRowsAreTheHighest ==
    Truncated =>
        \A d \in Rows(Selected) :
            Count(Selected, d) > Count(df_collocates, d) =>
                \A k \in Rows(df_collocates) :
                    k.x = d.x => k[type] >= d[type]

\* C5's case: a focus word keeps a row and loses one of strictly lower value.
C5_Witness ==
    /\ Returned
    /\ \E d \in Rows(Selected) :
          /\ Count(Selected, d) > Count(df_collocates, d)
          /\ \E k \in Rows(df_collocates) : k.x = d.x /\ k[type] > d[type]

\* C6: when rows survive, the nodes are the sources and targets of the
\* surviving rows, the edges are their unordered (source, target) pairs, and
\* each edge carries, under the metric's name alone, the metric value of a
\* surviving row of that pair.
C6_GraphOfSurvivingRows ==
    (Returned /\ df_collocates # <<>>) =>
        /\ Nodes(graph) = {r.x : r \in Rows(df_collocates)}
                              \cup {r.y : r \in Rows(df_collocates)}
        /\ Edges(graph) = {{r.x, r.y} : r \in Rows(df_collocates)}
        /\ \A e \in Edges(graph) :
              /\ DOMAIN graph.edges[e] = {type}
              /\ \E r \in Rows(df_collocates) :
                    e = {r.x, r.y} /\ graph.edges[e][type] = r[type]

\* C6's case: two surviving rows of one pair with different metric values.
C6_Witness ==
    /\ Returned
    /\ \E r1, r2 \in Rows(df_collocates) :
          {r1.x, r1.y} = {r2.x, r2.y} /\ r1[type] # r2[type]

\* Table b with the words of row i exchanged.
Mirror(b, i) ==
    [b EXCEPT ![i] = [date |-> @.date, x |-> @.y, y |-> @.x,
                      f_xy |-> @.f_xy, pmi |-> @.pmi]]

\* C7: exchanging the words of any one row of the table leaves the graph
\* returned unchanged, whatever the focus words, the metric and the cutoff.
C7_MirrorLeavesGraphUnchanged ==
    Returned =>
        \A i \in 1..Len(bigrams) :
            \A g \in get_nx_collocation_graph(Mirror(bigrams, i), words, type, top) :
                g = graph

\* Two rows of one source word tie on the metric across the cutoff n.
TieAtCutoff(c, t, n) ==
    \E i \in 1..Len(c) :
        LET above == Cardinality({j \in RowsOf(c, c[i].x) : c[j][t] > c[i][t]})
            notBelow == Cardinality({j \in RowsOf(c, c[i].x) : c[j][t] >= c[i][t]})
        IN  above < n /\ notBelow > n

\* C8: when no two rows of a source word tie on the metric at the cutoff,
\* every invocation with the same table, focus words, metric and top returns
\* the graph this invocation returned.
C8_Deterministic ==
    (Returned /\ ~TieAtCutoff(Selected, type, top)) =>
        \A g \in get_nx_collocation_graph(bigrams, words, type, top) : g = graph

\* C8's case: the sort has several outcomes (ties inside the kept rows), the
\* cutoff keeps rows and no tie lies across it.
C8_Witness ==
    /\ Returned
    /\ top >= 1
    /\ ~TieAtCutoff(Selected, type, top)
    /\ Cardinality(SortValues(Selected, type)) > 1
    /\ Edges(graph) # {}

-----------------------------------------------------------------------------
(* Properties of the render cycles (checked under Spec) *)

StartAfterEnd == widgets.data_range_start > widgets.data_range_end
PastHeader == script_pc # "header"

\* C9: on both pages a cycle shows the date error and stops exactly when the
\* start of the range is later than its end; a cycle that stopped has shown
\* the title, the selection and the error only, has computed no graph and has
\* saved no file; a cycle with start <= end (start = end included) shows no
\* error and goes on to the word selector (Dashboard) or the overview (About).
C9_DateRangeRejectedExactlyWhenStartAfterEnd ==
    /\ PastHeader => (script_pc = "stopped" <=> StartAfterEnd)
    /\ PastHeader => (Displayed("date_error") <=> StartAfterEnd)
    /\ script_pc = "stopped" =>
          /\ shown = <<"title", "selection", "date_error">>
          /\ words_to_collocate = Unset
          /\ collocations = Unset /\ cf_collocations = Unset
          /\ displayed = Unset /\ cf_displayed = Unset
          /\ source_data = Unset /\ cf_source_data = Unset
          /\ saved = {}
    /\ (RunEnded /\ ~StartAfterEnd) =>
          IF page = "Dashboard" THEN Displayed("words_selector")
          ELSE Displayed("overview")

\* C9's case: a Dashboard cycle with the collocation section switched on and
\* words selected is stopped by the date check, after an earlier cycle had
\* saved the collocation document.
C9_Witness ==
    /\ page = "Dashboard"
    /\ script_pc = "stopped"
    /\ widgets.collocChart
    /\ widgets.selected_words # {}
    /\ files[CollocationsHtml] # Unset

\* C10 as stated: a cycle with a valid date range, the collocation section on,
\* words selected and the source data requested raises nothing and ends with
\* the source data table displayed.
C10_CollocationSectionNeverRaises ==
    (RunEnded /\ page = "Dashboard" /\ ~StartAfterEnd /\ widgets.collocChart
        /\ widgets.collocData /\ widgets.selected_words # {}) =>
        /\ raised = None
        /\ Displayed("colloc_source")

-----------------------------------------------------------------------------
(* Properties of the taxonomies (checked under SpecTaxonomy) *)

Tidied == dict_taxonomies # Unset
GraphBuilt == nx_taxonomies # Unset
Queried == tax_pc = "done"

\* The values of a tidied (or raw) taxonomy, at every depth.
RECURSIVE ValuesOf(_)
ValuesOf(data) ==
    UNION {{data[i]} \cup (IF HasKey(data[i], "subcategories")
                           THEN ValuesOf(data[i]["subcategories"]) ELSE {}) :
              i \in 1..Len(data)}

\* The names of the terms of a tidied value and of its subcategories.
RECURSIVE NamesUnder(_)
NamesUnder(value) ==
    (IF HasKey(value, "vocabulary")
     THEN {value["vocabulary"][i].name : i \in 1..Len(value["vocabulary"])}
     ELSE {})
    \cup (IF HasKey(value, "subcategories")
          THEN UNION {NamesUnder(value["subcategories"][i]) :
                         i \in 1..Len(value["subcategories"])}
          ELSE {})

\* The nodes from which node n is reached by following edges.
RECURSIVE Ancestors(_, _)
Ancestors(g, n) ==
    LET parents == {e[1] : e \in {d \in g.edges : d[2] = n}}
    IN  parents \cup UNION {Ancestors(g, q) : q \in parents}

VocabularyNodes(g) == {n \in DOMAIN g.attrs : g.attrs[n].type = "vocabulary"}
CategoryNodes(g) == {n \in DOMAIN g.attrs : g.attrs[n].type = "category"}
LabelledNodes(g, S, label) == {n \in S : g.attrs[n].label = label}
IsSortedCasefold(v) ==
    \A i, j \in 1..Len(v) : i < j => ~StrLess(Casefold(v[j]), Casefold(v[i]))

\* C11 as stated: whatever keys the values of the yaml data lack, the three
\* functions complete without raising and the graph is built.
C11_MissingKeysNeverRaise ==
    tax_pc \notin {"tidy", "graph"} => (tax_raised = None /\ GraphBuilt)

\* C12: for the identifier of a category node, get_taxonomy_vocabularies
\* returns, sorted case-insensitively, one label per vocabulary node below
\* that category and nothing else: the names of its own terms and of the terms
\* of its subcategories at any depth.
C12_VocabulariesOfACategory ==
    (Queried /\ selected_taxonomy_category[1] # <<>>
        /\ selected_taxonomy_category[1][1] \in CategoryNodes(nx_taxonomies[1])) =>
        LET g == nx_taxonomies[1]
            c == selected_taxonomy_category[1][1]
            v == vocabularies[1]
            below == {n \in VocabularyNodes(g) : c \in Ancestors(g, n)}
        IN  /\ IsSortedCasefold(v)
            /\ Len(v) = Cardinality(below)
            /\ \A n \in VocabularyNodes(g) :
                  Count(v, g.attrs[n].label)
                      = Cardinality(LabelledNodes(g, below, g.attrs[n].label))
            /\ \A value \in ValuesOf(dict_taxonomies[1]) :
                  (HasKey(value, "category") /\ value["category"].uuid = c) =>
                      Rows(v) = NamesUnder(value)

\* C12's case: the category has a subcategory with terms, and the graph has
\* vocabulary nodes that are not below the category.
C12_Witness ==
    /\ Queried
    /\ selected_taxonomy_category[1] # <<>>
    /\ selected_taxonomy_category[1][1] \in CategoryNodes(nx_taxonomies[1])
    /\ LET g == nx_taxonomies[1]
           c == selected_taxonomy_category[1][1]
       IN  /\ \E n \in VocabularyNodes(g) :
                  c \in Ancestors(g, n) /\ <<c, n>> \notin g.edges
           /\ \E n \in VocabularyNodes(g) : c \notin Ancestors(g, n)
           /\ c \in UNION {Ancestors(g, m) : m \in CategoryNodes(g)}
           /\ Ancestors(g, c) # {}

\* C13: for no category, get_taxonomy_vocabularies returns, sorted
\* case-insensitively, one label per vocabulary node of the graph and nothing
\* else: a spelling appears as often as there are vocabulary nodes labelled
\* with it, whatever the labels of the category nodes.
C13_VocabulariesOfAllCategories ==
    (Queried /\ selected_taxonomy_category[1] = <<>>) =>
        LET g == nx_taxonomies[1]
            v == vocabularies[1]
        IN  /\ IsSortedCasefold(v)
            /\ Len(v) = Cardinality(VocabularyNodes(g))
            /\ \A n \in DOMAIN g.attrs :
                  Count(v, g.attrs[n].label)
                      = Cardinality(LabelledNodes(g, VocabularyNodes(g),
                                                  g.attrs[n].label))

\* C13's case: two vocabulary nodes and a category node with one spelling, and
\* a vocabulary node with another.
C13_Witness ==
    /\ Queried
    /\ selected_taxonomy_category[1] = <<>>
    /\ LET g == nx_taxonomies[1]
       IN  /\ \E n, m \in VocabularyNodes(g) :
                  n # m /\ g.attrs[n].label = g.attrs[m].label
           /\ \E n \in VocabularyNodes(g), m \in CategoryNodes(g) :
                  g.attrs[n].label = g.attrs[m].label
           /\ \E n, m \in VocabularyNodes(g) : g.attrs[n].label # g.attrs[m].label

\* C14: for an identifier that is no node of the graph,
\* get_taxonomy_vocabularies returns the empty list, raises nothing, and the
\* graph is the one get_nx_taxonomies_graph built.
C14_UnknownCategoryGivesEmptyList ==
    (Queried /\ selected_taxonomy_category[1] # <<>>
        /\ selected_taxonomy_category[1][1] \notin DOMAIN nx_taxonomies[1].attrs) =>
        /\ vocabularies[1] = <<>>
        /\ tax_raised = None
        /\ nx_taxonomies[1] = get_nx_taxonomies_graph(dict_taxonomies[1]).graph

\* C14's case: the identifier is unknown to a graph that has vocabulary nodes.
C14_Witness ==
    /\ Queried
    /\ selected_taxonomy_category[1] = <<UnknownId>>
    /\ VocabularyNodes(nx_taxonomies[1]) # {}
    /\ vocabularies[1] = <<>>

\* The words of string p, by position: a word starts at a character that is
\* no space and follows a space or nothing, and ends before the next space.
WordStarts(p) == {i \in 1..Len(p) : p[i] # " " /\ (i = 1 \/ p[i - 1] = " ")}
WordEnd(p, i) ==
    CHOOSE j \in i..Len(p) :
        (\A k \in i..j : p[k] # " ") /\ (j = Len(p) \/ p[j + 1] = " ")
WordsOf(p) ==
    [k \in 1..Cardinality(WordStarts(p)) |->
        LET i == CHOOSE i \in WordStarts(p) :
                    Cardinality({q \in WordStarts(p) : q < i}) = k - 1
        IN  SubSeq(p, i, WordEnd(p, i))]

\* A word in lower case and without asterisks.
IsNoAsterisk(ch) == ch # "*"
Normal(w) == SelectSeq(StrLower(w), IsNoAsterisk)
IsNoStopword(w) == w \notin stopwords

\* The names expected for a vocabulary: the normal forms of the words of its
\* strings, in order, the stop-words left out.
RECURSIVE ExpectedNames(_)
ExpectedNames(strings) ==
    IF strings = <<>> THEN <<>>
    ELSE SelectSeq([k \in 1..Len(WordsOf(Head(strings))) |->
                       Normal(WordsOf(Head(strings))[k])], IsNoStopword)
         \o ExpectedNames(Tail(strings))

Names(vocabulary) == [i \in 1..Len(vocabulary) |-> vocabulary[i].name]

\* The tidied values carry the expected names, value by value, at every depth.
RECURSIVE NamesAsExpected(_, _)
NamesAsExpected(data, tidied) ==
    /\ Len(tidied) = Len(data)
    /\ \A i \in 1..Len(data) :
          /\ DOMAIN tidied[i] = DOMAIN data[i]
          /\ HasKey(data[i], "vocabulary") =>
                Names(tidied[i]["vocabulary"]) = ExpectedNames(data[i]["vocabulary"])
          /\ HasKey(data[i], "subcategories") =>
                NamesAsExpected(data[i]["subcategories"], tidied[i]["subcategories"])

\* C15: every name tidy_taxonomies produces is lower-case, has no whitespace
\* and no asterisk and is no stop-word, and the names of a category are the
\* words of its strings in their order (lower-cased, asterisks removed, the
\* stop-words left out, however they were written).
C15_TokensAreNormalised ==
    Tidied =>
        /\ \A value \in ValuesOf(dict_taxonomies[1]) :
              HasKey(value, "vocabulary") =>
                  \A i \in 1..Len(value["vocabulary"]) :
                      LET name == value["vocabulary"][i].name
                      IN  /\ name = StrLower(name)
                          /\ \A k \in 1..Len(name) : name[k] \notin {" ", "*"}
                          /\ name \notin stopwords
        /\ NamesAsExpected(raw, dict_taxonomies[1])

\* C15's case: a stop-word written in upper case or with an asterisk is left
\* out, and a word written in upper case or with an asterisk is kept.
C15_Witness ==
    /\ Tidied
    /\ \E value \in ValuesOf(raw) :
          /\ HasKey(value, "vocabulary")
          /\ \E i, j \in 1..Len(value["vocabulary"]) :
                /\ \E k \in 1..Len(WordsOf(value["vocabulary"][i])) :
                      LET w == WordsOf(value["vocabulary"][i])[k]
                      IN  w \notin stopwords /\ Normal(w) \in stopwords
                /\ \E k \in 1..Len(WordsOf(value["vocabulary"][j])) :
                      LET w == WordsOf(value["vocabulary"][j])[k]
                      IN  w # Normal(w) /\ Normal(w) \notin stopwords
    /\ \E value \in ValuesOf(dict_taxonomies[1]) :
          HasKey(value, "vocabulary") /\ value["vocabulary"] # <<>>

\* The categories and the surviving words of the yaml data, every occurrence
\* counted.
RECURSIVE Occurrences(_)
Occurrences(data) ==
    IF data = <<>> THEN 0
    ELSE LET value == Head(data)
         IN  (IF HasKey(value, "category") THEN 1 ELSE 0)
             + (IF HasKey(value, "vocabulary")
                THEN Len(ExpectedNames(value["vocabulary"])) ELSE 0)
             + (IF HasKey(value, "subcategories")
                THEN Occurrences(value["subcategories"]) ELSE 0)
             + Occurrences(Tail(data))

\* C16 as stated: the graph has one node per category and one per surviving
\* word occurrence of the yaml data, so no two occurrences share a node.
C16_OneNodePerOccurrence ==
    GraphBuilt => Len(nx_taxonomies[1].nodes) = Occurrences(raw)

\* The strings of the vocabularies of the yaml data, at every depth.
VocabularyStrings(data) ==
    UNION {{value["vocabulary"][i] : i \in 1..Len(value["vocabulary"])} :
              value \in {u \in ValuesOf(data) : HasKey(u, "vocabulary")}}

\* Every vocabulary string is lower-case and a single word.
LowerCaseSingleWords(data) ==
    \A p \in VocabularyStrings(data) :
        p = StrLower(p) /\ p # <<>> /\ \A k \in 1..Len(p) : p[k] # " "

\* The sets of names of a tidied taxonomy and the sets of strings of yaml
\* data, value by value.
RECURSIVE NameSets(_)
NameSets(tidied) ==
    [i \in 1..Len(tidied) |->
        [vocabulary |-> IF HasKey(tidied[i], "vocabulary")
                        THEN Rows(Names(tidied[i]["vocabulary"])) ELSE {},
         subcategories |-> IF HasKey(tidied[i], "subcategories")
                           THEN NameSets(tidied[i]["subcategories"]) ELSE <<>>]]

RECURSIVE StringSets(_)
StringSets(data) ==
    [i \in 1..Len(data) |->
        [vocabulary |-> IF HasKey(data[i], "vocabulary")
                        THEN Rows(data[i]["vocabulary"]) ELSE {},
         subcategories |-> IF HasKey(data[i], "subcategories")
                           THEN StringSets(data[i]["subcategories"]) ELSE <<>>]]

\* A tidied taxonomy as yaml data again: the names without the identifiers.
RECURSIVE AsYaml(_)
AsYaml(tidied) ==
    [i \in 1..Len(tidied) |->
        Field("category", IF HasKey(tidied[i], "category")
                          THEN <<tidied[i]["category"].name>> ELSE <<>>)
        @@ Field("vocabulary", IF HasKey(tidied[i], "vocabulary")
                               THEN <<Names(tidied[i]["vocabulary"])>> ELSE <<>>)
        @@ Field("subcategories", IF HasKey(tidied[i], "subcategories")
                                  THEN <<AsYaml(tidied[i]["subcategories"])>>
                                  ELSE <<>>)]

PlainWords(data) ==
    \A p \in VocabularyStrings(data) :
        p \notin stopwords /\ \A k \in 1..Len(p) : p[k] # "*"

-----------------------------------------------------------------------------
(* The comparison of two subsets (checked under Spec) *)

Comparing == widgets.cf_corpus_subset # None

\* CollocData has run in this run of the script; CollocCharts has.
Collocated == collocations # Unset
Rendered == saved # {}

\* The graphs get_nx_collocation_graph can return for a subset, with the
\* widgets and the words to collocate of this run.
GraphsOf(subset) ==
    get_nx_collocation_graph(
        SelectedBigrams(subset, widgets.data_range_start, widgets.data_range_end),
        words_to_collocate[1], widgets.collocation_type,
        widgets.number_of_collocates)

\* The graphs of a subset once their nodes and edges carry the attributes.
StyledGraphsOf(subset) ==
    {SetEdgeAttributes(SetNodeAttributes(g, words_to_collocate[1]),
                       widgets.collocation_type) : g \in GraphsOf(subset)}

\* The nodes of g drawn with a colour of their own.
Highlighted(g) == {n \in Nodes(g) : "color" \in DOMAIN g.nodes[n]}

\* The highlighted nodes of g are the words to collocate, drawn with
\* node_attributes.
HighlightsWords(g) ==
    /\ Highlighted(g) = Nodes(g) \cap words_to_collocate[1]
    /\ \A n \in Highlighted(g) :
          \A k \in DOMAIN node_attributes : g.nodes[n][k] = node_attributes[k]

\* C18: when a subset to compare to is selected, the second graph is built
\* with the same focus words, metric, top and date range as the first, from
\* the rows of the other subset; both are rendered with the focus words
\* highlighted by the same node attributes and with the same configuration.
C18_ComparisonUsesTheSameParameters ==
    (page = "Dashboard" /\ Comparing /\ Collocated) =>
        /\ words_to_collocate =
              <<widgets.selected_words \cup widgets.selected_collocation_words>>
        /\ cf_collocations # Unset
        /\ IF ~Rendered
           THEN /\ collocations[1] \in GraphsOf(widgets.corpus_subset)
                /\ cf_collocations[1] \in GraphsOf(widgets.cf_corpus_subset)
           ELSE /\ collocations[1] \in StyledGraphsOf(widgets.corpus_subset)
                /\ cf_collocations[1] \in StyledGraphsOf(widgets.cf_corpus_subset)
                /\ HighlightsWords(collocations[1])
                /\ HighlightsWords(cf_collocations[1])
                /\ saved = {CollocationsHtml, CollocationsCfHtml}
                /\ files[CollocationsHtml][1].config = pyvis_config
                /\ files[CollocationsCfHtml][1].config = pyvis_config

\* C18's case: two subsets are compared with a word of the second multiselect
\* among the focus words; the two graphs differ, both have edges, and both
\* are rendered with the same focus words highlighted.
C18_Witness ==
    /\ page = "Dashboard"
    /\ Comparing
    /\ Rendered
    /\ widgets.selected_collocation_words \ widgets.selected_words # {}
    /\ collocations[1] # cf_collocations[1]
    /\ Edges(collocations[1]) # {}
    /\ Edges(cf_collocations[1]) # {}
    /\ Highlighted(collocations[1]) = words_to_collocate[1]
    /\ Highlighted(cf_collocations[1]) = words_to_collocate[1]

-----------------------------------------------------------------------------
(* The documents saved and displayed (checked under Spec) *)

\* The document of a path was saved by this run from graph g.
SavedFrom(path, g) ==
    /\ path \in saved
    /\ files[path] = <<PyvisHtml(g[1])>>

\* C19: the document of the graph is saved to collocations.html, and the one
\* of the graph to compare to collocations_cf.html, before it is displayed,
\* in place of the file of an earlier run; the document displayed in a run is
\* the one generated from the graph built in that run.
C19_SavedBeforeDisplayed ==
    /\ CollocationsHtml # CollocationsCfHtml
    /\ \A path \in saved :
          files[path] # Unset /\ files[path][1].saved_by = "this run"
    /\ displayed # Unset =>
          /\ Collocated
          /\ SavedFrom(CollocationsHtml, collocations)
          /\ displayed = files[CollocationsHtml]
    /\ cf_displayed # Unset =>
          /\ cf_collocations # Unset
          /\ SavedFrom(CollocationsCfHtml, cf_collocations)
          /\ cf_displayed = files[CollocationsCfHtml]

\* C19's case: an earlier run saved both files; this run, without a subset
\* to compare to, has saved collocations.html again and displays the document
\* of its own graph, while collocations_cf.html is still the earlier one.
C19_Witness ==
    /\ displayed # Unset
    /\ displayed = <<PyvisHtml(collocations[1])>>
    /\ Edges(collocations[1]) # {}
    /\ files[CollocationsCfHtml] = <<EarlierDocument>>
    /\ files[CollocationsHtml] # <<EarlierDocument>>

-----------------------------------------------------------------------------
(* The graphs handed to the renderer *)

\* C20: whenever at least one focus word is supplied, the graph returned has
\* at least one node, whatever the table, the metric and top, also a top that
\* keeps no row.
C20_ReturnedGraphIsNotEmpty ==
    (Returned /\ words # {}) => Nodes(graph) # {}

\* C20's case: rows of the table match the focus words, top keeps none of
\* them, and the graph returned has the focus words as nodes and no edge.
C20_Witness ==
    /\ Returned
    /\ top = 0
    /\ Selected # <<>>
    /\ df_collocates = <<>>
    /\ Nodes(graph) = words
    /\ Edges(graph) = {}

-----------------------------------------------------------------------------
(* The days of a pair (checked under SpecColloc) *)

\* The words the table records together with w, in either order.
Partners(w) ==
    {p \in WordSet : \E i \in 1..Len(bigrams) :
        {bigrams[i].x, bigrams[i].y} = {w, p} /\ p # w}

\* The surviving rows of focus word w and partner p.
Slots(w, p) == {i \in RowsOf(df_collocates, w) : df_collocates[i].y = p}

\* The partners of w in its surviving rows.
OwnNeighbours(w) == {df_collocates[i].y : i \in RowsOf(df_collocates, w)}

\* C21: a pair recorded on several days, whatever its daily values, takes at
\* most one of the top rows of a focus word, so a focus word with at least
\* top distinct partners keeps exactly top distinct partners.
C21_PairTakesOneSlot ==
    (Truncated /\ top >= 1) =>
        \A w \in words :
            /\ \A p \in WordSet : Cardinality(Slots(w, p)) <= 1
            /\ Cardinality(Partners(w)) >= top =>
                  Cardinality(OwnNeighbours(w)) = top

-----------------------------------------------------------------------------
(* The graph after it is returned (checked under Spec) *)

\* C22: once get_nx_collocation_graph has returned a graph, the steps of the
\* run leave its nodes, its edges and their attributes as they are; the graph
\* is only given up when a new run starts, which builds its own.
C22_GraphNeverMutated ==
    [][/\ collocations # Unset => collocations' \in {collocations, Unset}
       /\ cf_collocations # Unset => cf_collocations' \in {cf_collocations, Unset}]_vars

-----------------------------------------------------------------------------
(* The attributes of the rendered graphs (checked under Spec) *)

\* Node n of g carries the highlight colour and size.
CarriesHighlight(g, n) ==
    \A k \in DOMAIN node_attributes :
        k \in DOMAIN g.nodes[n] /\ g.nodes[n][k] = node_attributes[k]

\* Node n of g carries neither a colour nor a size of its own.
CarriesNoHighlight(g, n) ==
    \A k \in DOMAIN node_attributes : k \notin DOMAIN g.nodes[n]

\* The attributes of g after lines 1038-1052 (1068-1082).
Attributed(g) ==
    /\ \A n \in Nodes(g) :
          IF n \in words_to_collocate[1]
          THEN CarriesHighlight(g, n) ELSE CarriesNoHighlight(g, n)
    /\ \A e \in Edges(g) :
          /\ "value" \in DOMAIN g.edges[e]
          /\ g.edges[e]["value"] = g.edges[e][widgets.collocation_type]

\* C23: after the attributes are set, a node carries the highlight colour and
\* size exactly when it is a word to collocate, and every edge carries a
\* 'value' equal to its value of the chosen metric; so for the graph and for
\* the graph to compare to, also when a graph has no edge.
C23_HighlightAndValueAttributes ==
    (page = "Dashboard" /\ Rendered) =>
        /\ Attributed(collocations[1])
        /\ Comparing => Attributed(cf_collocations[1])

\* C23's case: the graph has edges and a node that is not a word to collocate,
\* while the graph to compare to has no edge, only the highlighted words.
C23_Witness ==
    /\ page = "Dashboard"
    /\ Rendered
    /\ Comparing
    /\ Edges(collocations[1]) # {}
    /\ Nodes(collocations[1]) \ words_to_collocate[1] # {}
    /\ Nodes(collocations[1]) \cap words_to_collocate[1] # {}
    /\ Edges(cf_collocations[1]) = {}
    /\ Nodes(cf_collocations[1]) = words_to_collocate[1]

-----------------------------------------------------------------------------
(* Two sessions and one path (checked under SpecSessions) *)

\* Session s displays a document that was not generated from its own graph.
DisplaysForeignDocument(s) ==
    /\ session_displayed[s] # Unset
    /\ session_displayed[s] # <<PyvisHtml(session_collocations[s][1])>>

\* C24: what a session displays is what collocations.html holds when the
\* session reads it, whichever session saved it last: saving and reading are
\* separate steps on one path, so a session can display the document of the
\* other.
C24_DisplayedIsWhatThePathHolds ==
    [][\A s \in Sessions :
          (session_pc[s] = "display" /\ session_pc'[s] = "done") =>
              session_displayed'[s] = files[CollocationsHtml]]_vars

\* C24's case: a session has saved its document and then displays the
\* document generated from the graph of the other session.
C24_Witness ==
    \E s \in Sessions, o \in Sessions :
        /\ s # o
        /\ session_pc[s] = "done"
        /\ DisplaysForeignDocument(s)
        /\ session_collocations[o] # Unset
        /\ session_displayed[s] = <<PyvisHtml(session_collocations[o][1])>>

-----------------------------------------------------------------------------
(* The shape of the taxonomy graph (checked under SpecTaxonomy) *)

\* The identifiers of the categories of the values of a list.
CategoryIds(data) ==
    {data[i]["category"].uuid :
        i \in {j \in 1..Len(data) : HasKey(data[j], "category")}}

\* The identifiers of the direct subcategories and of the own terms of a value.
ChildIds(value) ==
    (IF HasKey(value, "subcategories")
     THEN CategoryIds(value["subcategories"]) ELSE {})
    \cup (IF HasKey(value, "vocabulary")
          THEN {value["vocabulary"][i].uuid : i \in 1..Len(value["vocabulary"])}
          ELSE {})

InEdges(g, n) == {e \in g.edges : e[2] = n}
OutEdges(g, n) == {e \in g.edges : e[1] = n}

\* C25: in the graph of the taxonomies every node is a category or a
\* vocabulary node, every edge runs from a category to a direct subcategory
\* or to a term of its own, a vocabulary node has no outgoing edge, a
\* top-level category no incoming edge and every other node exactly one.
C25_TaxonomyGraphIsAForest ==
    GraphBuilt =>
        LET g == nx_taxonomies[1]
            data == dict_taxonomies[1]
        IN  /\ \A n \in DOMAIN g.attrs : g.attrs[n].type \in {"category", "vocabulary"}
            /\ \A e \in g.edges :
                  /\ e[1] \in CategoryNodes(g)
                  /\ \E value \in ValuesOf(data) :
                        /\ HasKey(value, "category")
                        /\ value["category"].uuid = e[1]
                        /\ e[2] \in ChildIds(value)
            /\ \A n \in VocabularyNodes(g) : OutEdges(g, n) = {}
            /\ \A n \in DOMAIN g.attrs :
                  IF n \in CategoryIds(data) THEN InEdges(g, n) = {}
                  ELSE Cardinality(InEdges(g, n)) = 1

-----------------------------------------------------------------------------
(* The labels of the categories (checked under SpecTaxonomy) *)

Labelled == taxonomy_categories # Unset
LabelledAgain == tax_pc = "again"

\* The pairs (identifier, label) of the categories of a tidied taxonomy: the
\* label of a category is made of the capitalised names of the categories
\* above it, from the top down to itself; prefix holds those above data.
RECURSIVE ExpectedLabels(_, _)
ExpectedLabels(data, prefix) ==
    UNION {LET value == data[i]
               own == IF HasKey(value, "category")
                      THEN Append(prefix, Capitalize(value["category"].name))
                      ELSE prefix
           IN  (IF HasKey(value, "category")
                THEN {<<value["category"].uuid, JoinPath(own)>>} ELSE {})
               \cup (IF HasKey(value, "subcategories")
                     THEN ExpectedLabels(value["subcategories"], own) ELSE {}) :
              i \in 1..Len(data)}

\* C28: get_taxonomy_categories maps the identifier of every category to the
\* capitalised names of its ancestors down to itself joined by ' > ', at any
\* depth and for any order of siblings, and a repeated call on the same data
\* returns the same labels.
C28_LabelsAreAncestorPaths ==
    Labelled =>
        LET expected == ExpectedLabels(dict_taxonomies[1], <<>>)
            labels == taxonomy_categories[1]
        IN  /\ DOMAIN labels = {q[1] : q \in expected}
            /\ \A q \in expected : labels[q[1]] = q[2]

-----------------------------------------------------------------------------
(* When a collocation graph is built (checked under Spec) *)

\* The collocation section is enabled, the date range valid and a word is
\* selected in 'Words to explore'.
GraphWanted ==
    /\ widgets.collocChart
    /\ ~DateRangeRejected(widgets)
    /\ widgets.selected_words # {}

\* C29: a run of the dashboard builds a collocation graph exactly when the
\* collocation section is enabled, the date range is valid and selected_words
\* is not empty, for the union of selected_words and
\* selected_collocation_words; with selected_words empty no graph is built,
\* no file is written and the notice is shown, whatever the additional words.
C29_GraphBuiltExactlyWhenWordsSelected ==
    page = "Dashboard" =>
        /\ Collocated =>
              /\ GraphWanted
              /\ words_to_collocate =
                    <<widgets.selected_words \cup widgets.selected_collocation_words>>
        /\ (RunEnded /\ GraphWanted) => Collocated
        /\ (RunEnded /\ widgets.collocChart /\ ~DateRangeRejected(widgets)
              /\ widgets.selected_words = {}) =>
              /\ ~Collocated
              /\ cf_collocations = Unset
              /\ saved = {}
              /\ Displayed("colloc_info")

\* C29's case: no word is selected in 'Words to explore' while additional
\* words to collocate are; the run ends with the notice and without a graph.
C29_Witness ==
    /\ page = "Dashboard"
    /\ RunEnded
    /\ widgets.collocChart
    /\ widgets.selected_words = {}
    /\ widgets.selected_collocation_words # {}
    /\ ~Collocated
    /\ Displayed("colloc_info")

-----------------------------------------------------------------------------
(* The selectors (checked under SpecSelectors) *)

\* The words offered without a category: the corpus words and every term.
FullVocabulary == Range(allwords) \cup Range(taxonomy_vocabularies)

\* The remembered value opt is an option of the selectbox.
Remembered(options, opt) == opt # Unset /\ opt[1] \in Range(options)

\* index is the position of the remembered value among the options, or 0
\* when the remembered value is not an option.
IndexAsRemembered(options, opt, index) ==
    IF Remembered(options, opt)
    THEN /\ options[index + 1] = opt[1]
         /\ \A j \in 1..index : options[j] # opt[1]
    ELSE index = 0

\* C26: a remembered category (or subset to compare to) that is not among
\* the options of its selector gives the index 0, the option 'None', and the
\* full vocabulary as word suggestions, and raises nothing; a remembered
\* value that is an option gives its position as index.
C26_StaleSelectionFallsBack ==
    /\ selector_raised = None
    /\ selected_taxonomy_category_options[1] = NoneOption
    /\ cf_corpus_subset_options[1] = None
    /\ (selected_words_options # Unset
          /\ ~Remembered(selected_taxonomy_category_options,
                         session_state.selected_taxonomy_category)) =>
          Range(selected_words_options[1]) = FullVocabulary
    /\ selected_taxonomy_category_index # Unset =>
          IndexAsRemembered(selected_taxonomy_category_options,
                            session_state.selected_taxonomy_category,
                            selected_taxonomy_category_index[1])
    /\ cf_corpus_subset_index # Unset =>
          IndexAsRemembered(cf_corpus_subset_options,
                            session_state.cf_corpus_subset,
                            cf_corpus_subset_index[1])

\* C26's case: the session remembers a category of an earlier load of the
\* taxonomies; the run ended with index 0 and the full vocabulary, while the
\* subset to compare to is remembered and found at its position.
C26_Witness ==
    /\ selector_pc = "done"
    /\ session_state.selected_taxonomy_category = <<StaleId>>
    /\ selected_taxonomy_category_index = <<0>>
    /\ Range(selected_words_options[1]) = FullVocabulary
    /\ session_state.cf_corpus_subset = <<"conspiracy">>
    /\ cf_corpus_subset_index = <<2>>

\* The terms of the category the session remembers.
CategoryVocabulary ==
    Range(get_taxonomy_vocabularies(SelectorGraph,
              <<Get(session_state.selected_taxonomy_category, EmptyList)>>))

\* C27: whatever categories and words were selected in the runs so far, every
\* word of selected_words is among the options of 'Words to explore' and
\* every word of selected_collocation_words among those of 'Additional words
\* to collocate', so that no multiselect raises.
C27_SelectedWordsStayOptions ==
    /\ selector_raised = None
    /\ selected_words_options # Unset =>
          Range(Get(session_state.selected_words, DefaultWordList))
              \subseteq Range(selected_words_options[1])
    /\ selected_collocation_words_options # Unset =>
          Range(Get(session_state.selected_collocation_words, <<>>))
              \subseteq Range(selected_collocation_words_options[1])

\* C27's case: a category is selected whose terms include neither a word
\* selected to explore nor a word selected to collocate, and both words are
\* still among the options.
C27_Witness ==
    /\ selector_pc = "done"
    /\ CategoryVocabulary # {}
    /\ \E w \in Range(session_state.selected_words[1]) :
          w \notin CategoryVocabulary /\ w \in Range(selected_words_options[1])
    /\ selected_collocation_words_options # Unset
    /\ \E w \in Range(session_state.selected_collocation_words[1]) :
          /\ w \notin CategoryVocabulary
          /\ w \in Range(selected_collocation_words_options[1])

=============================================================================
